---- MODULE Spec2Model ----
(***************************************************************************)
(* Model of the skill-extraction engine of skills_extract:                 *)
(*   - SkillDictionary.load_from_file / load_all (skill_dictionary.py)     *)
(*   - SkillExtractor.__init__, _load_variations, _build_patterns,         *)
(*     extract, _normalize_skill, _remove_duplicates_preserve_order        *)
(*     (skill_extractor.py)                                                *)
(*   - Aggregator.calculate_document_frequency, normalize_role,            *)
(*     _aggregate_group, aggregate_by_role (aggregator.py)                 *)
(*   - RulesGenerator.generate_rule_files, generate_output_paths,          *)
(*     _create_rule, _get_rank (rules_generator.py)                        *)
(*   - SkillDictionary.load_all, add_skill, get_category                   *)
(*     (skill_dictionary.py)                                               *)
(*   - SkillExtractor.extract on any document, extract_batch, reset_stats, *)
(*     get_extraction_stats, and extract called from several threads       *)
(*     (skill_extractor.py)                                                *)
(*   - SkillExtractor.__init__ on any content of the variations file       *)
(*     (skill_extractor.py)                                                *)
(*                                                                         *)
(* A string is a sequence of one-character strings.  The compiled regular  *)
(* expression  \b(alt1|alt2|...)\b  is modelled by what Python's re module *)
(* does with it: a leftmost scan, the alternatives tried in their order,   *)
(* \b as a change of word-character class between two neighbours.          *)
(***************************************************************************)
EXTENDS Naturals, Integers, Sequences, FiniteSets, TLC

VARIABLES
    pc,                 \* position in the pipeline: "new", "loaded", "ready", "done"
    dict_lines,         \* lines of the technical dictionary file
    variations_file,    \* parsed YAML of the variations file (<<>> when absent)
    case_sensitive,     \* extraction.case_sensitive
    remove_duplicates,  \* extraction.remove_duplicates
    normalize_skills,   \* extraction.normalize_skills
    all_skills,         \* SkillDictionary._all_skills
    variations,         \* SkillExtractor.variations
    variation_map,      \* SkillExtractor._variation_map
    pattern,            \* SkillExtractor._pattern: the alternatives in order, <<>> for None
    stats,              \* SkillExtractor._stats
    text,               \* text of the last extract call (empty when it was not given a text)
    spans,              \* the matches of the last extract call, as [s, e) offsets
    result,             \* value returned by the last extract call
    df,                 \* the 'extracted_skills' column handed to the Aggregator
    frequency,          \* value returned by calculate_document_frequency
    role_column,        \* the role column of the table, row by row
    top_n,              \* Aggregator.top_n
    role_mappings,      \* Aggregator.role_mappings
    role_arg,           \* argument of the last normalize_role call
    normalized_role,    \* value returned by the last normalize_role call
    aggregation,        \* value returned by _aggregate_group on the whole table
    role_aggregations,  \* value returned by aggregate_by_role
    min_frequency,      \* RulesGenerator.min_frequency
    core_threshold,     \* RulesGenerator.core_threshold, as a fraction n/d
    rule_files,         \* the rule files written: the lines of each path
    output_paths,       \* the paths the rules generator has returned
    dictionaries,       \* extraction.dictionaries: the file of each configured category
    category_skills,    \* SkillDictionary._skills
    category_arg,       \* argument of the last get_category call
    category,           \* value returned by the last get_category call
    dict_stats,         \* SkillDictionary._stats
    loaded,             \* value returned by the last load_from_file call
    error,              \* the exception the last call ended with, "None" when it returned
    document,           \* argument of the last extract call: a text or something else
    documents,          \* the text column of the caller's table
    extracted,          \* the table returned by extract_batch, row by row
    returned,           \* the lists extract has returned since the statistics were reset
    workers             \* the threads inside extract: position and local values of each

\* the state of the extractor and of the document-frequency table
extractVars == <<dict_lines, variations_file, case_sensitive, remove_duplicates,
                 normalize_skills, variations, variation_map, pattern,
                 stats, text, spans, result, frequency>>

\* the state of the role reports and of the rules generator
reportVars == <<role_column, top_n, role_mappings, role_arg, normalized_role,
                aggregation, role_aggregations, min_frequency, core_threshold,
                rule_files, output_paths>>

\* the state of the category lookup
lookupVars == <<dictionaries, category_skills, category_arg, category>>

\* the statistics and the last file of the dictionary
loadVars == <<dict_stats, loaded>>

\* the calls made on a constructed extractor
sessionVars == <<error, document, documents, extracted, returned, workers>>

vars == <<pc, dict_lines, variations_file, case_sensitive, remove_duplicates,
          normalize_skills, all_skills, variations, variation_map, pattern,
          stats, text, spans, result, df, frequency, role_column, top_n,
          role_mappings, role_arg, normalized_role, aggregation,
          role_aggregations, min_frequency, core_threshold, rule_files,
          output_paths, dictionaries, category_skills, category_arg,
          category, dict_stats, loaded, error, document, documents, extracted,
          returned, workers>>

(***************************************************************************)
(* Bounds                                                                  *)
(***************************************************************************)
\* longest text handed to extract
MaxLen == 3
\* most documents in an aggregated table
MaxDocs == 3
\* longest skill list of one document
MaxSkills == 2

(***************************************************************************)
(* Characters and strings                                                  *)
(***************************************************************************)
Alphabet == {"a", "b", "A", "+", " "}

\* \w of Python's re on str patterns: alphanumerics and the underscore
IsWordChar(c) == c \in {"a", "b", "A", "B", "_"}

\* str.lower() on one character
LowerChar(c) == IF c = "A" THEN "a" ELSE IF c = "B" THEN "b" ELSE c

\* str.lower()
Lower(s) == [i \in 1..Len(s) |-> LowerChar(s[i])]

\* all strings over the alphabet of length at most n
RECURSIVE StringsUpTo(_)
StringsUpTo(n) ==
    IF n = 0 THEN {<<>>}
    ELSE LET shorter == StringsUpTo(n - 1)
         IN  shorter \cup {Append(s, c) : s \in {t \in shorter : Len(t) = n - 1}, c \in Alphabet}

Texts == StringsUpTo(MaxLen)

(***************************************************************************)
(* SkillDictionary                                                         *)
(***************************************************************************)
IsSpace(c) == c \in {" ", "\t", "\n"}

RECURSIVE LStrip(_)
LStrip(s) == IF s # <<>> /\ IsSpace(Head(s)) THEN LStrip(Tail(s)) ELSE s

RECURSIVE RStrip(_)
RStrip(s) ==
    IF s # <<>> /\ IsSpace(s[Len(s)]) THEN RStrip(SubSeq(s, 1, Len(s) - 1)) ELSE s

\* str.strip()
Strip(s) == LStrip(RStrip(s))

\* the loop of load_from_file with the comment test made before the line
\* is trimmed
RECURSIVE LoadLinesUntrimmed(_, _)
LoadLinesUntrimmed(lines, skills) ==
    IF lines = <<>> THEN skills
    ELSE LET line == Head(lines)
         IN  IF Strip(line) = <<>> \/ Head(line) = "#"
             THEN LoadLinesUntrimmed(Tail(lines), skills)
             ELSE LoadLinesUntrimmed(Tail(lines), skills \cup {Lower(Strip(line))})

\* the loop of load_from_file over the lines of a readable file: the set of
\* skills collected so far, to which each remaining line is applied in turn
RECURSIVE LoadLines(_, _)
LoadLines(lines, skills) ==
    IF lines = <<>> THEN skills
    ELSE LET line == Strip(Head(lines))
         IN  IF line = <<>> \/ Head(line) = "#"
             THEN LoadLines(Tail(lines), skills)
             ELSE LoadLines(Tail(lines), skills \cup {Lower(line)})

\* SkillDictionary.load_from_file: the returned set
LoadFromFile(lines) == LoadLines(lines, {})

\* the duplicates counted by the loop of load_from_file: the lines whose
\* skill is in the set already
RECURSIVE CountDuplicates(_, _)
CountDuplicates(lines, skills) ==
    IF lines = <<>> THEN 0
    ELSE LET line == Strip(Head(lines))
         IN  IF line = <<>> \/ Head(line) = "#"
             THEN CountDuplicates(Tail(lines), skills)
             ELSE IF Lower(line) \in skills
                  THEN 1 + CountDuplicates(Tail(lines), skills)
                  ELSE CountDuplicates(Tail(lines), skills \cup {Lower(line)})

\* a configured dictionary file: its lines, or a path that does not exist
DictFile(exists, lines) == [exists |-> exists, lines |-> lines]

\* load_from_file on a configured path: the empty set when the file does
\* not exist
LoadFromPath(file) == IF file.exists THEN LoadFromFile(file.lines) ELSE {}

\* SkillDictionary.__init__: nothing loaded
ZeroDictStats == [total_loaded |-> 0, duplicates_removed |-> 0, files_loaded |-> 0]

\* the statistics load_from_file leaves: untouched when the file does not
\* exist, the duplicates added and one more file counted when it does
FileLoaded(st, file) ==
    IF file.exists
    THEN [st EXCEPT !.duplicates_removed = @ + CountDuplicates(file.lines, {}),
                    !.files_loaded = @ + 1]
    ELSE st

(***************************************************************************)
(* SkillExtractor: construction                                            *)
(***************************************************************************)
EmptyMap == [x \in {} |-> <<>>]

\* d[k] = v of a Python dict
DictSet(d, k, v) == [x \in DOMAIN d \cup {k} |-> IF x = k THEN v ELSE d[x]]

\* the inner loop of _load_variations with the variation's .lower() left out
RECURSIVE MapVariationsKeepCase(_, _, _)
MapVariationsKeepCase(vs, canonical_lower, map) ==
    IF vs = <<>> THEN map
    ELSE MapVariationsKeepCase(Tail(vs), canonical_lower,
                                DictSet(map, Head(vs), canonical_lower))

\* the inner loop of _load_variations: the variations of one canonical skill
RECURSIVE MapVariations(_, _, _)
MapVariations(vs, canonical_lower, map) ==
    IF vs = <<>> THEN map
    ELSE MapVariations(Tail(vs), canonical_lower,
                       DictSet(map, Lower(Head(vs)), canonical_lower))

\* the outer loop of _load_variations: the reverse mapping variation -> canonical
RECURSIVE BuildVariationMap(_, _)
BuildVariationMap(entries, map) ==
    IF entries = <<>> THEN map
    ELSE BuildVariationMap(Tail(entries),
                           MapVariations(Head(entries).variations,
                                         Lower(Head(entries).canonical), map))

\* _build_patterns: all_patterns, the dictionary and the lowercased variations
AllPatterns(skills, vars_table) ==
    skills \cup UNION {{Lower(vars_table[i].variations[j]) :
                           j \in 1..Len(vars_table[i].variations)} :
                       i \in 1..Len(vars_table)}

MaxLength(S) == CHOOSE n \in {Len(x) : x \in S} : \A y \in S : Len(y) <= n

\* sorted(all_patterns, key=len, reverse=True): the sort is stable over the
\* iteration order of a set, so equally long strings come in any order
RECURSIVE SortedByLength(_)
SortedByLength(S) ==
    IF S = {} THEN {<<>>}
    ELSE UNION {{<<x>> \o rest : rest \in SortedByLength(S \ {x})} :
                x \in {y \in S : Len(y) = MaxLength(S)}}

(***************************************************************************)
(* SkillExtractor: the compiled pattern  \b(alt1|...|altn)\b               *)
(***************************************************************************)
\* \b between offsets p-1 and p of the text (p in 0..Len): exactly one of the
\* two neighbours is a word character; outside the text counts as non-word
WordBoundary(txt, p) ==
    LET before == p > 0 /\ IsWordChar(txt[p])
        after  == p < Len(txt) /\ IsWordChar(txt[p + 1])
    IN  before # after

\* two characters match, under re.IGNORECASE when ignore_case
CharMatches(pc_, tc, ignore_case) ==
    IF ignore_case THEN LowerChar(pc_) = LowerChar(tc) ELSE pc_ = tc

\* the escaped alternative alt matches the text literally at offset i
AltMatches(alt, txt, i, ignore_case) ==
    /\ i + Len(alt) <= Len(txt)
    /\ \A k \in 1..Len(alt) : CharMatches(alt[k], txt[i + k], ignore_case)

\* the alternatives that match at offset i and are followed by \b
MatchingAlts(pat, txt, i, ignore_case) ==
    {k \in 1..Len(pat) : /\ AltMatches(pat[k], txt, i, ignore_case)
                         /\ WordBoundary(txt, i + Len(pat[k]))}

Min(S) == CHOOSE m \in S : \A n \in S : m <= n

\* length of the match of the whole pattern at offset i, 0 when there is none:
\* the engine takes the first alternative, in the order of the alternation,
\* that lets the rest of the pattern (the closing \b) match
MatchLength(pat, txt, i, ignore_case) ==
    LET alts == MatchingAlts(pat, txt, i, ignore_case)
    IN  IF WordBoundary(txt, i) /\ alts # {} THEN Len(pat[Min(alts)]) ELSE 0

\* the non-overlapping matches from offset pos on, leftmost first, as [s, e):
\* the search tries each offset in turn and resumes at the end of a match
RECURSIVE Scan(_, _, _, _)
Scan(pat, txt, pos, ignore_case) ==
    IF pos > Len(txt) THEN <<>>
    ELSE LET n == MatchLength(pat, txt, pos, ignore_case)
         IN  IF n > 0
             THEN <<[s |-> pos, e |-> pos + n]>> \o Scan(pat, txt, pos + n, ignore_case)
             ELSE Scan(pat, txt, pos + 1, ignore_case)

\* the text of a match
Matched(txt, m) == SubSeq(txt, m.s + 1, m.e)

\* self._pattern.findall(text)
FindAll(pat, txt, ignore_case) ==
    LET ms == Scan(pat, txt, 0, ignore_case)
    IN  [k \in 1..Len(ms) |-> Matched(txt, ms[k])]

(***************************************************************************)
(* SkillExtractor: extract                                                 *)
(***************************************************************************)
\* _normalize_skill
NormalizeSkill(map, skill) ==
    LET skill_lower == Lower(skill)
    IN  IF skill_lower \in DOMAIN map THEN map[skill_lower] ELSE skill_lower

Range(q) == {q[i] : i \in 1..Len(q)}

\* a deduplication that keeps the last mention of each skill, not the first
RECURSIVE RemoveDuplicatesKeepLast(_)
RemoveDuplicatesKeepLast(skills) ==
    IF skills = <<>> THEN <<>>
    ELSE IF Head(skills) \in Range(Tail(skills))
         THEN RemoveDuplicatesKeepLast(Tail(skills))
         ELSE <<Head(skills)>> \o RemoveDuplicatesKeepLast(Tail(skills))

\* _remove_duplicates_preserve_order
RECURSIVE DedupFrom(_, _, _)
DedupFrom(skills, seen, out) ==
    IF skills = <<>> THEN out
    ELSE IF Head(skills) \in seen
         THEN DedupFrom(Tail(skills), seen, out)
         ELSE DedupFrom(Tail(skills), seen \cup {Head(skills)}, Append(out, Head(skills)))

RemoveDuplicatesPreserveOrder(skills) == DedupFrom(skills, {}, <<>>)

\* extract with the duplicates removed before the variations are resolved
SkillsOfDedupFirst(matches, map, normalize, dedup) ==
    LET lowered == [k \in 1..Len(matches) |-> Lower(matches[k])]
        deduped == IF dedup THEN DedupFrom(lowered, {}, <<>>) ELSE lowered
    IN  IF normalize
        THEN [k \in 1..Len(deduped) |-> NormalizeSkill(map, deduped[k])]
        ELSE deduped

\* the list built by extract from the matches (lines 157-166)
SkillsOf(matches, map, normalize, dedup) ==
    LET lowered    == [k \in 1..Len(matches) |-> Lower(matches[k])]
        normalized == IF normalize
                      THEN [k \in 1..Len(lowered) |-> NormalizeSkill(map, lowered[k])]
                      ELSE lowered
    IN  IF dedup THEN RemoveDuplicatesPreserveOrder(normalized) ELSE normalized

\* a pattern compiled without re.IGNORECASE whatever the setting
NeverIgnoreCase(cs) == FALSE

\* flags = 0 if self.case_sensitive else re.IGNORECASE
IgnoreCase(cs) == ~cs

ZeroStats == [total_extractions |-> 0, total_skills_found |-> 0, unique_skills_found |-> {}]

(***************************************************************************)
(* Inputs                                                                  *)
(***************************************************************************)
\* lines a dictionary file is made of: a capitalised one-word skill, a
\* one-word skill, a two-word skill that begins with the first, and a skill
\* that ends with a non-word character (as c++ does)
TermPool == << <<"A">>, <<"b">>, <<"a", " ", "b">>, <<"a", "+">> >>

\* the lines of the pool with an index in I, in the order of the pool
RECURSIVE PoolLines(_, _)
PoolLines(I, k) ==
    IF k > Len(TermPool) THEN <<>>
    ELSE (IF k \in I THEN <<TermPool[k]>> ELSE <<>>) \o PoolLines(I, k + 1)

DictFiles == {PoolLines(I, 1) : I \in SUBSET (1..Len(TermPool))}

Entry(c, vs) == [canonical |-> c, variations |-> vs]

\* variation files, as the mapping yaml.safe_load returns (in file order):
\* none; a canonical name in mixed case with a variation that may also be a
\* dictionary term; a variation in upper case and a canonical name listed
\* among its own variations; a canonical name that is a variation of another
\* one; one variation, which begins with a non-word character (as .net does),
\* listed under two canonical names
VariationFiles ==
    { <<>>,
      << Entry(<<"A", " ", "b">>, << <<"b">> >>) >>,
      << Entry(<<"b">>, << <<"A">>, <<"b">> >>) >>,
      << Entry(<<"a">>, << <<"b">> >>), Entry(<<"b">>, << <<"a", "+">> >>) >>,
      << Entry(<<"a">>, << <<"+", "a">> >>), Entry(<<"b">>, << <<"+", "a">> >>) >> }

(***************************************************************************)
(* Components that take no part in a run                                   *)
(***************************************************************************)
\* a fraction n/d
Fraction(n, d) == [n |-> n, d |-> d]

\* SkillDictionary.__init__: the three categories, empty
EmptyCategories == [c \in {"technical", "soft", "custom"} |-> {}]

\* no Aggregator and no RulesGenerator at work: the defaults of their
\* constructors, nothing aggregated, nothing generated
ReportIdle ==
    /\ role_column = [present |-> FALSE, values |-> <<>>]
    /\ top_n = 0
    /\ role_mappings = <<>>
    /\ role_arg = <<>>
    /\ normalized_role = <<>>
    /\ aggregation = <<>>
    /\ role_aggregations = <<>>
    /\ min_frequency = 0
    /\ core_threshold = Fraction(0, 1)
    /\ rule_files = EmptyMap
    /\ output_paths = EmptyMap

\* no category lookup at work
LookupIdle ==
    /\ dictionaries = EmptyMap
    /\ category_skills = EmptyCategories
    /\ category_arg = <<>>
    /\ category = "None"

\* a document handed to extract: a text (kind "str", its characters in
\* chars), None, a float NaN, the number 0, another number, pandas' missing
\* value pd.NA (kind "na") or a numpy array of several elements (kind "array")
Doc(kind, chars) == [kind |-> kind, chars |-> chars]

NoDocument == Doc("none", <<>>)

\* no file loaded by the dictionary
LoadIdle ==
    /\ dict_stats = ZeroDictStats
    /\ loaded = {}

\* no call made on an extractor
SessionIdle ==
    /\ error = "None"
    /\ document = NoDocument
    /\ documents = <<>>
    /\ extracted = <<>>
    /\ returned = <<>>
    /\ workers = <<>>

\* no extractor and no frequency table at work
ExtractIdle ==
    /\ dict_lines = <<>>
    /\ variations_file = <<>>
    /\ case_sensitive = FALSE
    /\ remove_duplicates = TRUE
    /\ normalize_skills = TRUE
    /\ variations = <<>>
    /\ variation_map = EmptyMap
    /\ pattern = <<>>
    /\ stats = ZeroStats
    /\ text = <<>>
    /\ spans = <<>>
    /\ result = <<>>
    /\ frequency = EmptyMap

(***************************************************************************)
(* The extraction pipeline                                                 *)
(***************************************************************************)
Init ==
    /\ pc = "new"
    /\ dict_lines \in DictFiles
    /\ variations_file \in VariationFiles
    /\ case_sensitive \in BOOLEAN
    /\ remove_duplicates \in BOOLEAN
    /\ normalize_skills \in BOOLEAN
    /\ all_skills = {}
    /\ variations = <<>>
    /\ variation_map = EmptyMap
    /\ pattern = <<>>
    /\ stats = ZeroStats
    /\ text = <<>>
    /\ spans = <<>>
    /\ result = <<>>
    /\ df = <<>>
    /\ frequency = EmptyMap
    /\ dictionaries = [c \in {"technical"} |-> DictFile(TRUE, dict_lines)]
    /\ category_skills = EmptyCategories
    /\ category_arg = <<>>
    /\ category = "None"
    /\ ReportIdle
    /\ LoadIdle
    /\ SessionIdle

\* SkillDictionary.load_all with the technical dictionary configured: the
\* set of the file becomes _skills['technical'], the union of the categories
\* _all_skills
LoadAll ==
    /\ pc = "new"
    /\ category_skills' = [category_skills EXCEPT
                               !["technical"] = LoadFromPath(dictionaries["technical"])]
    /\ all_skills' = UNION {category_skills'[c] : c \in DOMAIN category_skills'}
    /\ loaded' = LoadFromPath(dictionaries["technical"])
    /\ dict_stats' = [FileLoaded(dict_stats, dictionaries["technical"])
                          EXCEPT !.total_loaded = Cardinality(all_skills')]
    /\ pc' = "loaded"
    /\ UNCHANGED <<dict_lines, variations_file, case_sensitive, remove_duplicates,
                   normalize_skills, variations, variation_map, pattern, stats,
                   text, spans, result, df, frequency>>
    /\ UNCHANGED <<dictionaries, category_arg, category>>
    /\ UNCHANGED <<reportVars, sessionVars>>

\* SkillExtractor.__init__: _load_variations when normalize_skills, then
\* _build_patterns over the dictionary and the loaded variations
Construct ==
    /\ pc = "loaded"
    /\ variations' = IF normalize_skills THEN variations_file ELSE <<>>
    /\ variation_map' = IF normalize_skills
                        THEN BuildVariationMap(variations_file, EmptyMap)
                        ELSE EmptyMap
    /\ pattern' \in SortedByLength(AllPatterns(all_skills, variations'))
    /\ stats' = ZeroStats
    /\ pc' = "ready"
    /\ UNCHANGED <<dict_lines, variations_file, case_sensitive, remove_duplicates,
                   normalize_skills, all_skills, text, spans, result, df, frequency>>
    /\ UNCHANGED <<reportVars, lookupVars, loadVars, sessionVars>>

\* what SkillExtractor.extract(t) leaves: the matches, the returned list and
\* the statistics
Extracts(t) ==
    /\ text' = t
    /\ IF t = <<>> \/ pattern = <<>>
       THEN /\ spans' = <<>>
            /\ result' = <<>>
            /\ stats' = stats
       ELSE LET found  == Scan(pattern, t, 0, IgnoreCase(case_sensitive))
                skills == SkillsOf([k \in 1..Len(found) |-> Matched(t, found[k])],
                                   variation_map, normalize_skills, remove_duplicates)
            IN  /\ spans' = found
                /\ result' = skills
                /\ stats' = [total_extractions |-> stats.total_extractions + 1,
                             total_skills_found |-> stats.total_skills_found + Len(skills),
                             unique_skills_found |->
                                 stats.unique_skills_found \cup Range(skills)]
    /\ pc' = "done"
    /\ UNCHANGED <<dict_lines, variations_file, case_sensitive, remove_duplicates,
                   normalize_skills, all_skills, variations, variation_map, pattern,
                   df, frequency>>
    /\ UNCHANGED <<reportVars, lookupVars, loadVars, sessionVars>>

\* SkillExtractor.extract(t) on every text of up to MaxLen characters
Extract ==
    /\ pc = "ready"
    /\ \E t \in Texts : Extracts(t)

Next == LoadAll \/ Construct \/ Extract

Spec == Init /\ [][Next]_vars

(***************************************************************************)
(* The extraction pipeline on texts of several mentions                    *)
(***************************************************************************)
\* most words of a text
MaxWords == 3

\* the words of a text: the one-word skills of the pool in lower and upper
\* case
Words == { <<"a">>, <<"b">>, <<"A">> }

\* ' '.join(words) for every list of up to n words
RECURSIVE SentencesUpTo(_)
SentencesUpTo(n) ==
    IF n = 0 THEN {<<>>}
    ELSE IF n = 1 THEN {<<>>} \cup Words
    ELSE LET shorter == SentencesUpTo(n - 1)
         IN  shorter \cup {w \o <<" ">> \o t : w \in Words, t \in shorter \ {<<>>}}

Sentences == SentencesUpTo(MaxWords)

\* SkillExtractor.extract(t) on every text of up to MaxWords words
ExtractSentence ==
    /\ pc = "ready"
    /\ \E t \in Sentences : Extracts(t)

OrderNext == LoadAll \/ Construct \/ ExtractSentence

OrderSpec == Init /\ [][OrderNext]_vars

(***************************************************************************)
(* Aggregator                                                              *)
(***************************************************************************)
SkillNames == {"java", "python"}

RECURSIVE ListsUpTo(_)
ListsUpTo(n) ==
    IF n = 0 THEN {<<>>}
    ELSE LET shorter == ListsUpTo(n - 1)
         IN  shorter \cup {Append(l, x) : l \in {m \in shorter : Len(m) = n - 1},
                                          x \in SkillNames}

\* a cell of the 'extracted_skills' column: a list of skills, or a value that
\* is no list (a missing value; a tuple or string that holds a skill)
Cell(is_list, skills) == [is_list |-> is_list, skills |-> skills]

Cells ==
    {Cell(TRUE, l) : l \in ListsUpTo(MaxSkills)}
        \cup {Cell(FALSE, <<>>), Cell(FALSE, <<"python">>)}

RECURSIVE ColumnsUpTo(_)
ColumnsUpTo(n) ==
    IF n = 0 THEN {<<>>}
    ELSE LET shorter == ColumnsUpTo(n - 1)
         IN  shorter \cup {Append(col, c) : col \in {d \in shorter : Len(d) = n - 1},
                                            c \in Cells}

\* Counter.update(iterable of distinct elements): one more for each element
CounterUpdate(counts, S) ==
    [x \in DOMAIN counts \cup S |->
        (IF x \in DOMAIN counts THEN counts[x] ELSE 0) + (IF x \in S THEN 1 ELSE 0)]

\* unique_skills = set(skills) if isinstance(skills, list) else set()
UniqueSkills(cell) == IF cell.is_list THEN Range(cell.skills) ELSE {}

\* Counter.update(list): one more for each mention
RECURSIVE CountMentions(_, _)
CountMentions(skills, counts) ==
    IF skills = <<>> THEN counts
    ELSE CountMentions(Tail(skills),
                       [x \in DOMAIN counts \cup {Head(skills)} |->
                           (IF x \in DOMAIN counts THEN counts[x] ELSE 0)
                               + (IF x = Head(skills) THEN 1 ELSE 0)])

\* the loop of calculate_document_frequency counting mentions, not documents
RECURSIVE CountRowsByMention(_, _)
CountRowsByMention(rows, skill_counts) ==
    IF rows = <<>> THEN skill_counts
    ELSE CountRowsByMention(Tail(rows),
                            IF Head(rows).is_list
                            THEN CountMentions(Head(rows).skills, skill_counts)
                            ELSE skill_counts)

\* the loop of calculate_document_frequency over the rows
RECURSIVE CountRows(_, _)
CountRows(rows, skill_counts) ==
    IF rows = <<>> THEN skill_counts
    ELSE CountRows(Tail(rows), CounterUpdate(skill_counts, UniqueSkills(Head(rows))))

\* Aggregator.calculate_document_frequency
CalculateDocumentFrequency(column) == CountRows(column, [x \in {} |-> 0])

AggInit ==
    /\ pc = "table"
    /\ df \in ColumnsUpTo(MaxDocs)
    /\ frequency = EmptyMap
    /\ dict_lines = <<>>
    /\ variations_file = <<>>
    /\ case_sensitive = FALSE
    /\ remove_duplicates = TRUE
    /\ normalize_skills = TRUE
    /\ all_skills = {}
    /\ variations = <<>>
    /\ variation_map = EmptyMap
    /\ pattern = <<>>
    /\ stats = ZeroStats
    /\ text = <<>>
    /\ spans = <<>>
    /\ result = <<>>
    /\ ReportIdle
    /\ LookupIdle
    /\ LoadIdle
    /\ SessionIdle

\* a call of calculate_document_frequency on the table
DocumentFrequency ==
    /\ pc = "table"
    /\ frequency' = CalculateDocumentFrequency(df)
    /\ pc' = "counted"
    /\ UNCHANGED <<df, dict_lines, variations_file, case_sensitive, remove_duplicates,
                   normalize_skills, all_skills, variations, variation_map, pattern,
                   stats, text, spans, result>>
    /\ UNCHANGED <<reportVars, lookupVars, loadVars, sessionVars>>

AggNext == DocumentFrequency

AggSpec == AggInit /\ [][AggNext]_vars

(***************************************************************************)
(* Aggregator.normalize_role                                               *)
(***************************************************************************)
\* the sentinel of a missing role
Unknown == <<"U", "n", "k", "n", "o", "w", "n">>

\* a value of the role column: na for None and NaN, a string otherwise
RawRole(na, label) == [na |-> na, label |-> label]

\* not role or pd.isna(role)
IsMissing(role) == role.na \/ role.label = <<>>

\* normalize_role returning an unmapped label untrimmed
\* the loop over role_mappings.items(): the first canonical label one of
\* whose variations, lowercased, is role_lower; the fallback when none is
RECURSIVE FirstMapping(_, _, _)
FirstMapping(mappings, role_lower, fallback) ==
    IF mappings = <<>> THEN fallback
    ELSE IF \E k \in 1..Len(Head(mappings).variations) :
                Lower(Head(mappings).variations[k]) = role_lower
         THEN Head(mappings).canonical
         ELSE FirstMapping(Tail(mappings), role_lower, fallback)

\* normalize_role returning an unmapped label untrimmed
NormalizeRoleUntrimmed(mappings, role) ==
    IF IsMissing(role) THEN Unknown
    ELSE FirstMapping(mappings, Strip(Lower(role.label)), role.label)

\* Aggregator.normalize_role
NormalizeRole(mappings, role) ==
    IF IsMissing(role) THEN Unknown
    ELSE FirstMapping(mappings, Strip(Lower(role.label)), Strip(role.label))

RawRoles == {RawRole(TRUE, <<>>)} \cup {RawRole(FALSE, t) : t \in Texts}

\* analytics.role_mappings, in the order of the YAML mapping: none; one role
\* with one variation; a variation written with a trailing space before a
\* plain one; one variation under two roles
RoleMappingTables ==
    { <<>>,
      << Entry(<<"B">>, << <<"a">> >>) >>,
      << Entry(<<"B">>, << <<"A", " ">> >>), Entry(<<"b">>, << <<"a">>, <<"a", "b">> >>) >>,
      << Entry(<<"B">>, << <<"A">> >>), Entry(<<"b">>, << <<"a">> >>) >> }

RoleInit ==
    /\ pc = "role"
    /\ role_arg \in RawRoles
    /\ role_mappings \in RoleMappingTables
    /\ normalized_role = <<>>
    /\ role_column = [present |-> FALSE, values |-> <<>>]
    /\ top_n = 0
    /\ aggregation = <<>>
    /\ role_aggregations = <<>>
    /\ min_frequency = 0
    /\ core_threshold = Fraction(0, 1)
    /\ rule_files = EmptyMap
    /\ output_paths = EmptyMap
    /\ all_skills = {}
    /\ df = <<>>
    /\ ExtractIdle
    /\ LookupIdle
    /\ LoadIdle
    /\ SessionIdle

\* a call of normalize_role
NormalizeRoleCall ==
    /\ pc = "role"
    /\ normalized_role' = NormalizeRole(role_mappings, role_arg)
    /\ pc' = "normalized"
    /\ UNCHANGED <<role_arg, role_mappings, role_column, top_n, aggregation,
                   role_aggregations, min_frequency, core_threshold, rule_files,
                   output_paths, all_skills, df>>
    /\ UNCHANGED <<extractVars, lookupVars, loadVars, sessionVars>>

RoleNext == NormalizeRoleCall

RoleSpec == RoleInit /\ [][RoleNext]_vars

(***************************************************************************)
(* Aggregator._aggregate_group and aggregate_by_role                       *)
(***************************************************************************)
\* most rows of a table that is aggregated by role
MaxRows == 2

ReportSkillNames == {"java", "python", "sql"}

\* the list extract_batch leaves in a cell, for a set of skills
RECURSIVE ListOf(_)
ListOf(S) ==
    IF S = {} THEN <<>>
    ELSE LET x == CHOOSE y \in S : TRUE
         IN  <<x>> \o ListOf(S \ {x})

\* a row of a table extract_batch has filled: the list of the skills and
\* its length in the column 'skill_count'
CountedCell(skills) ==
    [is_list |-> TRUE, skills |-> skills, skill_count |-> <<Len(skills)>>]

\* the rows of the table without the column 'skill_count'
WithoutSkillCount(rows) == [i \in 1..Len(rows) |-> [rows[i] EXCEPT !.skill_count = <<>>]]

ReportCells == {CountedCell(ListOf(S)) : S \in SUBSET ReportSkillNames}

ReportRoles == {RawRole(TRUE, <<>>), RawRole(FALSE, <<"A">>)}

\* the role column of a table: absent, or one raw role for each row
RoleColumn(present, values) == [present |-> present, values |-> values]

\* tables of up to n rows: the 'extracted_skills' cells and the raw roles
RECURSIVE TablesUpTo(_)
TablesUpTo(n) ==
    IF n = 0 THEN {[cells |-> <<>>, roles |-> <<>>]}
    ELSE LET shorter == TablesUpTo(n - 1)
         IN  shorter \cup
             {[cells |-> Append(t.cells, c), roles |-> Append(t.roles, r)] :
                 t \in {u \in shorter : Len(u.cells) = n - 1},
                 c \in ReportCells, r \in ReportRoles}

\* analytics.top_n_skills
TopNs == {1, 2}

\* analytics.role_mappings: none, or a role with a variation in lower case
ReportMappings == { <<>>, << Entry(<<"B">>, << <<"a">> >>) >> }

\* every order in which a set can be iterated
RECURSIVE Orderings(_)
Orderings(S) ==
    IF S = {} THEN {<<>>}
    ELSE UNION {{<<x>> \o rest : rest \in Orderings(S \ {x})} : x \in S}

\* Counter's  self[elem] = 1  whatever the count was
AddOneOverwrite(items, x) ==
    IF \E i \in 1..Len(items) : items[i].skill = x
    THEN items
    ELSE Append(items, [skill |-> x, count |-> 1])

\* Counter's  self[elem] = self.get(elem, 0) + 1  on a dict that keeps the
\* order of insertion: the items are (skill, count) in that order
AddOne(items, x) ==
    IF \E i \in 1..Len(items) : items[i].skill = x
    THEN [i \in 1..Len(items) |->
             IF items[i].skill = x
             THEN [skill |-> x, count |-> items[i].count + 1]
             ELSE items[i]]
    ELSE Append(items, [skill |-> x, count |-> 1])

\* Counter.update(unique_skills), the set iterated in the given order
RECURSIVE UpdateInOrder(_, _)
UpdateInOrder(items, order) ==
    IF order = <<>> THEN items
    ELSE UpdateInOrder(AddOne(items, Head(order)), Tail(order))

\* the loop of calculate_document_frequency with the order of the keys: every
\* dict it can return, a set being iterated in an order of its own
RECURSIVE CountRowsInOrder(_, _)
CountRowsInOrder(rows, items) ==
    IF rows = <<>> THEN {items}
    ELSE UNION {CountRowsInOrder(Tail(rows), UpdateInOrder(items, order)) :
                    order \in Orderings(UniqueSkills(Head(rows)))}

\* a float: the 53 bits of its significand, the first one 1, and the
\* exponent of the last bit; 0.0 has no bits
Double(bits, exp) == [bits |-> bits, exp |-> exp]

ZeroDouble == Double(<<>>, 0)

\* bits of a significand
SignificandBits == 53

\* the binary digits of a natural number, none for 0
RECURSIVE BitsOf(_)
BitsOf(n) == IF n = 0 THEN <<>> ELSE Append(BitsOf(n \div 2), n % 2)

\* the number a few binary digits stand for
RECURSIVE ValueOf(_)
ValueOf(bits) ==
    IF bits = <<>> THEN 0
    ELSE 2 * ValueOf(SubSeq(bits, 1, Len(bits) - 1)) + bits[Len(bits)]

\* the binary digits of the number plus one
RECURSIVE Increment(_)
Increment(bits) ==
    IF bits = <<>> THEN <<1>>
    ELSE IF bits[Len(bits)] = 0 THEN [bits EXCEPT ![Len(bits)] = 1]
    ELSE Append(Increment(SubSeq(bits, 1, Len(bits) - 1)), 0)

\* one digit of a multiplication by k, from the last digit on: the digits
\* still to do, the carry, the digits of the product so far
TimesStep(todo, carry, done) == [todo |-> todo, carry |-> carry, done |-> done]

RECURSIVE TimesFrom(_, _)
TimesFrom(step, k) ==
    IF step.todo = <<>> THEN BitsOf(step.carry) \o step.done
    ELSE LET v == step.todo[Len(step.todo)] * k + step.carry
         IN  TimesFrom(TimesStep(SubSeq(step.todo, 1, Len(step.todo) - 1), v \div 2,
                                 <<v % 2>> \o step.done), k)

\* the binary digits of the number times k
TimesBits(bits, k) == TimesFrom(TimesStep(bits, 0, <<>>), k)

\* n binary digits 0, none when n is not positive
Zeros(n) == IF n > 0 THEN [i \in 1..n |-> 0] ELSE <<>>

\* the float nearest to bits * 2^exp, a tie going to the even significand
RoundToDouble(bits, exp) ==
    IF Len(bits) <= SignificandBits
    THEN Double(bits \o Zeros(SignificandBits - Len(bits)),
                exp - (SignificandBits - Len(bits)))
    ELSE LET kept == SubSeq(bits, 1, SignificandBits)
             rest == SubSeq(bits, SignificandBits + 1, Len(bits))
             up == /\ rest[1] = 1
                   /\ \/ kept[SignificandBits] = 1
                      \/ \E i \in 2..Len(rest) : rest[i] = 1
             m == IF up THEN Increment(kept) ELSE kept
         IN  IF Len(m) > SignificandBits
             THEN Double(SubSeq(m, 1, SignificandBits), exp + Len(rest) + 1)
             ELSE Double(m, exp + Len(rest))

\* one digit of a long division: what is left to divide, the digits so far
\* without leading zeros, the exponent of the last one
DivideStep(rem, bits, exp) == [rem |-> rem, bits |-> bits, exp |-> exp]

\* long division by d: one digit more than the significand holds, and a
\* last digit that tells whether anything is left
RECURSIVE DivideFrom(_, _)
DivideFrom(step, d) ==
    IF Len(step.bits) > SignificandBits
    THEN [bits |-> Append(step.bits, IF step.rem = 0 THEN 0 ELSE 1), exp |-> step.exp - 1]
    ELSE LET b == IF 2 * step.rem >= d THEN 1 ELSE 0
         IN  DivideFrom(DivideStep(2 * step.rem - b * d,
                                   IF step.bits = <<>> /\ b = 0 THEN <<>>
                                   ELSE Append(step.bits, b),
                                   step.exp - 1), d)

\* n / d of two integers, n >= 0 and d > 0: the float nearest to the quotient
Quotient(n, d) ==
    IF n = 0 THEN ZeroDouble
    ELSE LET q == DivideFrom(DivideStep(n % d, BitsOf(n \div d), 0), d)
         IN  RoundToDouble(q.bits, q.exp)

\* x * k of a float and a small integer: the float nearest to the product
Times(x, k) ==
    IF x.bits = <<>> \/ k = 0 THEN ZeroDouble
    ELSE RoundToDouble(TimesBits(x.bits, k), x.exp)

\* x < y for two floats that are not negative
Less(x, y) ==
    IF y.bits = <<>> THEN FALSE
    ELSE IF x.bits = <<>> THEN TRUE
    ELSE IF x.exp # y.exp THEN x.exp < y.exp
    ELSE \E i \in 1..SignificandBits :
             /\ x.bits[i] < y.bits[i]
             /\ \A j \in 1..(i - 1) : x.bits[j] = y.bits[j]

\* the integer nearest to bits * 2^exp, a tie going to the even one
Rint(bits, exp) ==
    IF bits = <<>> THEN 0
    ELSE IF exp >= 0 THEN ValueOf(bits) * 2 ^ exp
    ELSE LET padded == Zeros(1 - exp - Len(bits)) \o bits
             whole == ValueOf(SubSeq(padded, 1, Len(padded) + exp))
             part == SubSeq(padded, Len(padded) + exp + 1, Len(padded))
             up == /\ part[1] = 1
                   /\ \/ whole % 2 = 1
                      \/ \E i \in 2..Len(part) : part[i] = 1
         IN  IF up THEN whole + 1 ELSE whole

\* round(x, 2) of a Python float x >= 0, in hundredths: the decimal nearest
\* to the value the float holds, a tie going to the even neighbour
Round2(x) == IF x.bits = <<>> THEN 0 ELSE Rint(TimesBits(x.bits, 100), x.exp)

\* round(x, 2) of a numpy.float64 x >= 0, in hundredths: rint(x * 100), the
\* product being a float of its own
NumpyRound2(x) == LET y == Times(x, 100) IN Rint(y.bits, y.exp)

\* the counts whose values are computed once and looked up after
TableSize == 12

\* (count // total_jds) * 100 if total_jds > 0 else 0
PercentageFloored(count, total_jds) ==
    IF total_jds > 0 THEN Times(Quotient(count \div total_jds, 1), 100) ELSE ZeroDouble

\* (count / total_jds) * 100 for the small counts
PercentageTable ==
    [count \in 0..TableSize, total_jds \in 1..TableSize |->
        Times(Quotient(count, total_jds), 100)]

\* (count / total_jds) * 100 if total_jds > 0 else 0: the float
Percentage(count, total_jds) ==
    IF total_jds <= 0 THEN ZeroDouble
    ELSE IF count \in 0..TableSize /\ total_jds \in 1..TableSize
    THEN PercentageTable[count, total_jds]
    ELSE Times(Quotient(count, total_jds), 100)

\* round(percentage, 2) for the small counts
RoundedPercentageTable ==
    [count \in 0..TableSize, total_jds \in 0..TableSize |->
        Round2(Percentage(count, total_jds))]

\* round(percentage, 2) of the percentage of count in total_jds, in
\* hundredths
RoundedPercentage(count, total_jds) ==
    IF count \in 0..TableSize /\ total_jds \in 0..TableSize
    THEN RoundedPercentageTable[count, total_jds]
    ELSE Round2(Percentage(count, total_jds))

\* round(column.mean(), 2) for the small counts
MeanTable ==
    [total \in 0..TableSize, n \in 1..TableSize |-> NumpyRound2(Quotient(total, n))]

\* round(column.mean(), 2) of a column of n > 0 integers that add up to
\* total, in hundredths; the mean is a numpy.float64
RoundedMean(total, n) ==
    IF total \in 0..TableSize /\ n \in 1..TableSize
    THEN MeanTable[total, n]
    ELSE NumpyRound2(Quotient(total, n))

Max(S) == CHOOSE m \in S : \A n \in S : n <= m

\* sorted(items, key=count) without reverse=True
RECURSIVE SortedByCountAscending(_)
SortedByCountAscending(items) ==
    IF items = <<>> THEN <<>>
    ELSE LET m == Min({items[k].count : k \in 1..Len(items)})
             i == Min({k \in 1..Len(items) : items[k].count = m})
         IN  <<items[i]>> \o
             SortedByCountAscending(SubSeq(items, 1, i - 1) \o SubSeq(items, i + 1, Len(items)))

\* sorted(items, key=count, reverse=True): the sort is stable, equal counts
\* stay in the order of the dict
RECURSIVE SortedByCount(_)
SortedByCount(items) ==
    IF items = <<>> THEN <<>>
    ELSE LET m == Max({items[k].count : k \in 1..Len(items)})
             i == Min({k \in 1..Len(items) : items[k].count = m})
         IN  <<items[i]>> \o
             SortedByCount(SubSeq(items, 1, i - 1) \o SubSeq(items, i + 1, Len(items)))

\* seq[:n] for n >= 0
Take(seq, n) == SubSeq(seq, 1, IF n < Len(seq) THEN n ELSE Len(seq))

\* df['skill_count'].sum(), the column as extract_batch fills it
RECURSIVE SkillCountSum(_)
SkillCountSum(rows) ==
    IF rows = <<>> THEN 0 ELSE Head(rows).skill_count[1] + SkillCountSum(Tail(rows))

\* 'skill_count' in df.columns and len(df) > 0
HasSkillCounts(rows) == rows # <<>> /\ rows[1].skill_count # <<>>

\* the dict _aggregate_group returns for the rows, the frequencies given
Report(rows, items, n) ==
    LET total_jds == Len(rows)
        top == Take(SortedByCount(items), n)
    IN  [total_jds |-> total_jds,
         unique_skills |-> Len(items),
         skill_frequencies |-> items,
         skill_percentages |->
             [s \in {items[k].skill : k \in 1..Len(items)} |->
                 Percentage((CHOOSE it \in Range(items) : it.skill = s).count, total_jds)],
         top_skills |->
             [k \in 1..Len(top) |->
                 [skill |-> top[k].skill, count |-> top[k].count,
                  percentage |-> RoundedPercentage(top[k].count, total_jds)]],
         avg_skills_per_jd |->
             IF HasSkillCounts(rows) THEN RoundedMean(SkillCountSum(rows), total_jds) ELSE 0]

\* Aggregator._aggregate_group: every dict it can return
AggregateGroup(rows, n) == {Report(rows, items, n) : items \in CountRowsInOrder(rows, <<>>)}

\* df[role_column].apply(self.normalize_role)
NormalizedRoles(mappings, roles) ==
    [k \in 1..Len(roles) |-> NormalizeRole(mappings, roles[k])]

\* a group of groupby that holds every row of the table
SelectAllRows(rows, keys, role) == rows

\* the group of groupby('normalized_role') for one role: its rows, in the
\* order of the table
RECURSIVE SelectRows(_, _, _)
SelectRows(rows, keys, role) ==
    IF rows = <<>> THEN <<>>
    ELSE (IF Head(keys) = role THEN <<Head(rows)>> ELSE <<>>)
             \o SelectRows(Tail(rows), Tail(keys), role)

\* the loop over the groups: every results dict it can build
RECURSIVE GroupReports(_, _, _, _)
GroupReports(rows, keys, roles, n) ==
    IF roles = {} THEN {EmptyMap}
    ELSE LET role == CHOOSE r \in roles : TRUE
         IN  {DictSet(results, role, report) :
                 results \in GroupReports(rows, keys, roles \ {role}, n),
                 report \in AggregateGroup(SelectRows(rows, keys, role), n)}

All == <<"a", "l", "l">>

\* Aggregator.aggregate_by_role: every dict it can return
AggregateByRole(rows, column, mappings, n) ==
    IF ~column.present
    THEN {DictSet(EmptyMap, All, report) : report \in AggregateGroup(rows, n)}
    ELSE LET keys == NormalizedRoles(mappings, column.values)
         IN  GroupReports(rows, keys, Range(keys), n)

\* the columns of the table besides the lists: those extract_batch leaves
\* ('skill_count') with or without a role column, or the lists alone
ReportColumns ==
    { [counted |-> TRUE, role |-> TRUE], [counted |-> TRUE, role |-> FALSE],
      [counted |-> FALSE, role |-> FALSE] }

ReportInit ==
    /\ pc = "table"
    /\ \E t \in TablesUpTo(MaxRows), columns \in ReportColumns :
        /\ df = IF columns.counted THEN t.cells ELSE WithoutSkillCount(t.cells)
        /\ role_column = RoleColumn(columns.role, IF columns.role THEN t.roles ELSE <<>>)
    /\ top_n \in TopNs
    /\ role_mappings \in ReportMappings
    /\ role_arg = <<>>
    /\ normalized_role = <<>>
    /\ aggregation = <<>>
    /\ role_aggregations = <<>>
    /\ min_frequency = 0
    /\ core_threshold = Fraction(0, 1)
    /\ rule_files = EmptyMap
    /\ output_paths = EmptyMap
    /\ all_skills = {}
    /\ ExtractIdle
    /\ LookupIdle
    /\ LoadIdle
    /\ SessionIdle

\* a call of aggregate_by_role on the table
AggregateByRoleCall ==
    /\ pc = "table"
    /\ role_aggregations' \in AggregateByRole(df, role_column, role_mappings, top_n)
    /\ pc' = "grouped"
    /\ UNCHANGED <<df, role_column, top_n, role_mappings, role_arg, normalized_role,
                   aggregation, min_frequency, core_threshold, rule_files,
                   output_paths, all_skills>>
    /\ UNCHANGED <<extractVars, lookupVars, loadVars, sessionVars>>

ReportNext == AggregateByRoleCall

ReportSpec == ReportInit /\ [][ReportNext]_vars

(***************************************************************************)
(* SkillDictionary.get_category and the rules generator                    *)
(***************************************************************************)
\* the categories in the order __init__ puts them into _skills
CategoryOrder == <<"technical", "soft", "custom">>

\* the loop of get_category over _skills.items(), from the k-th category on;
\* "None" stands for None
RECURSIVE FirstCategory(_, _, _)
FirstCategory(cats, skill_lower, k) ==
    IF k > Len(CategoryOrder) THEN "None"
    ELSE IF skill_lower \in cats[CategoryOrder[k]] THEN CategoryOrder[k]
    ELSE FirstCategory(cats, skill_lower, k + 1)

\* get_category with the skill compared as it is written
GetCategoryKeepCase(cats, skill) == FirstCategory(cats, skill, 1)

\* SkillDictionary.get_category
GetCategory(cats, skill) == FirstCategory(cats, Lower(skill), 1)

\* the characters of a skill name
SkillChars(s) ==
    CASE s = "java"   -> <<"j", "a", "v", "a">>
      [] s = "python" -> <<"p", "y", "t", "h", "o", "n">>
      [] s = "sql"    -> <<"s", "q", "l">>

\* RulesGenerator._get_variations over self.variations, in file order
RECURSIVE GetVariations(_, _)
GetVariations(table, skill) ==
    IF table = <<>> THEN <<skill>>
    ELSE LET canonical == Head(table).canonical
             vs == Head(table).variations
         IN  IF Lower(canonical) = Lower(skill) THEN vs
             ELSE IF \E k \in 1..Len(vs) : Lower(vs[k]) = Lower(skill)
                  THEN <<canonical>> \o vs
                  ELSE GetVariations(Tail(table), skill)

\* _get_rank counting the entries from 0
GetRankFromZero(skill, top_skills) ==
    LET at == {i \in 1..Len(top_skills) : top_skills[i].skill = skill}
    IN  IF at = {} THEN <<>> ELSE <<Min(at) - 1>>

\* RulesGenerator._get_rank: <<i>> for the 1-based position of the skill in
\* the list, <<>> for None
GetRank(skill, top_skills) ==
    LET at == {i \in 1..Len(top_skills) : top_skills[i].skill = skill}
    IN  IF at = {} THEN <<>> ELSE <<Min(at)>>

\* self.core_threshold * 100, the threshold being the float the
\* configuration gives for the decimal n/d
CoreLimit(threshold) == Times(Quotient(threshold.n, threshold.d), 100)

\* percentage > core_threshold * 100
IsCoreAbove(percentage, threshold) == Less(CoreLimit(threshold), percentage)

\* is_core = percentage >= (self.core_threshold * 100)
IsCore(percentage, threshold) == ~Less(percentage, CoreLimit(threshold))

\* RulesGenerator._create_rule; role is <<>> for None, <<r>> for the role r
CreateRule(skill, count, total_jds, rank, role) ==
    LET percentage == Percentage(count, total_jds)
        found == GetCategory(category_skills, SkillChars(skill))
        rule == [skill |-> skill,
                 pattern |-> skill,
                 variations |-> GetVariations(variations_file, SkillChars(skill)),
                 category |-> IF found = "None" THEN "unknown" ELSE found,
                 pattern_type |-> "dictionary",
                 frequency |-> count,
                 percentage |-> RoundedPercentage(count, total_jds),
                 is_core_skill |-> IsCore(percentage, core_threshold)]
        ranked == IF rank # <<>> THEN [rank |-> rank[1]] @@ rule ELSE rule
    IN  IF role # <<>> THEN [role |-> role[1]] @@ ranked ELSE ranked

\* the loop over skill_frequencies.items() of generate_global_rules and of
\* generate_role_rules: the lines written for one aggregation
RECURSIVE RulesOf(_, _, _)
RulesOf(items, data, role) ==
    IF items = <<>> THEN <<>>
    ELSE (IF Head(items).count < min_frequency THEN <<>>
          ELSE <<CreateRule(Head(items).skill, Head(items).count, data.total_jds,
                            GetRank(Head(items).skill, data.top_skills), role)>>)
             \o RulesOf(Tail(items), data, role)

\* str.isalnum() on one character of a role
IsAlnum(c) == c \notin {" ", "+", "_"}

\* "".join(c if c.isalnum() else "_" for c in str(role))
SafeRole(role) == [i \in 1..Len(role) |-> IF IsAlnum(role[i]) THEN role[i] ELSE "_"]

\* a rule file: its directory under output_dir and its name before
\* _rules.jsonl
RulePath(dir, name) == [dir |-> dir, name |-> name]

GlobalPath == RulePath(<<>>, <<"g", "l", "o", "b", "a", "l">>)

RolePath(role) == RulePath(<<"r", "o", "l", "e", "_", "r", "u", "l", "e", "s">>, SafeRole(role))

\* ord() of the first character of a role
CodePoint(c) ==
    CASE c = " " -> 32 [] c = "+" -> 43 [] c = "A" -> 65 [] c = "B" -> 66 [] c = "U" -> 85
      [] c = "_" -> 95 [] c = "a" -> 97 [] c = "b" -> 98

\* the keys of groupby in their sorted order; the roles differ in their
\* first character
RECURSIVE SortedRoles(_)
SortedRoles(roles) ==
    IF roles = {} THEN <<>>
    ELSE LET first == CHOOSE r \in roles :
                          \A q \in roles : CodePoint(r[1]) <= CodePoint(q[1])
         IN  <<first>> \o SortedRoles(roles \ {first})

\* the loop of generate_role_rules over role_aggregations.items(): each file
\* is opened with 'w', so a later role of the same path replaces the lines
RECURSIVE WriteRoleFiles(_, _, _)
WriteRoleFiles(roles, aggregations, files) ==
    IF roles = <<>> THEN files
    ELSE LET role == Head(roles)
             data == aggregations[role]
         IN  WriteRoleFiles(Tail(roles), aggregations,
                            DictSet(files, RolePath(role),
                                    RulesOf(data.skill_frequencies, data, <<role>>)))

RulesCells == {CountedCell(ListOf(S)) : S \in SUBSET SkillNames}

\* two roles that differ in a character that is no letter and no digit
RulesRoles == {RawRole(FALSE, <<"+">>), RawRole(FALSE, <<"_">>)}

RECURSIVE RulesTablesUpTo(_)
RulesTablesUpTo(n) ==
    IF n = 0 THEN {[cells |-> <<>>, roles |-> <<>>]}
    ELSE LET shorter == RulesTablesUpTo(n - 1)
         IN  shorter \cup
             {[cells |-> Append(t.cells, c), roles |-> Append(t.roles, r)] :
                 t \in {u \in shorter : Len(u.cells) = n - 1},
                 c \in RulesCells, r \in RulesRoles}

\* rules.min_frequency_threshold
MinFrequencies == {1, 2}

\* rules.core_skill_threshold
CoreThresholds == {Fraction(1, 2), Fraction(1, 1)}

\* the dictionary the generator is given: java is a technical skill
RulesCategories ==
    [c \in {"technical", "soft", "custom"} |->
        IF c = "technical" THEN {SkillChars("java")} ELSE {}]

\* the variations file the generator loads: python is a variation of py
RulesVariations == << Entry(<<"p", "y">>, << SkillChars("python") >>) >>

RulesInit ==
    /\ pc = "table"
    /\ \E t \in RulesTablesUpTo(MaxRows), present \in BOOLEAN :
        /\ df = t.cells
        /\ role_column = RoleColumn(present, IF present THEN t.roles ELSE <<>>)
    /\ top_n \in TopNs
    /\ role_mappings = <<>>
    /\ min_frequency \in MinFrequencies
    /\ core_threshold \in CoreThresholds
    /\ variations_file = RulesVariations
    /\ category_skills = RulesCategories
    /\ dictionaries = EmptyMap
    /\ role_arg = <<>>
    /\ normalized_role = <<>>
    /\ aggregation = <<>>
    /\ role_aggregations = <<>>
    /\ rule_files = EmptyMap
    /\ output_paths = EmptyMap
    /\ all_skills = UNION {RulesCategories[c] : c \in DOMAIN RulesCategories}
    /\ dict_lines = <<>>
    /\ case_sensitive = FALSE
    /\ remove_duplicates = TRUE
    /\ normalize_skills = TRUE
    /\ variations = <<>>
    /\ variation_map = EmptyMap
    /\ pattern = <<>>
    /\ stats = ZeroStats
    /\ text = <<>>
    /\ spans = <<>>
    /\ result = <<>>
    /\ frequency = EmptyMap
    /\ category_arg = <<>>
    /\ category = "None"
    /\ LoadIdle
    /\ SessionIdle

\* RulesGenerator.generate_global_rules on the table
GenerateGlobalRules ==
    /\ pc = "table"
    /\ aggregation' \in AggregateGroup(df, top_n)
    /\ rule_files' = DictSet(rule_files, GlobalPath,
                             RulesOf(aggregation'.skill_frequencies, aggregation', <<>>))
    /\ pc' = "global"
    /\ UNCHANGED <<df, role_column, top_n, role_mappings, role_arg, normalized_role,
                   role_aggregations, min_frequency, core_threshold, output_paths,
                   all_skills>>
    /\ UNCHANGED <<extractVars, lookupVars, loadVars, sessionVars>>

\* RulesGenerator.generate_role_rules on the table, as generate_all calls it
\* after generate_global_rules
GenerateRoleRules ==
    /\ pc = "global"
    /\ role_aggregations' \in AggregateByRole(df, role_column, role_mappings, top_n)
    /\ rule_files' = WriteRoleFiles(SortedRoles(DOMAIN role_aggregations'),
                                    role_aggregations', rule_files)
    /\ output_paths' = [role \in DOMAIN role_aggregations' |-> RolePath(role)]
    /\ pc' = "roles"
    /\ UNCHANGED <<df, role_column, top_n, role_mappings, role_arg, normalized_role,
                   aggregation, min_frequency, core_threshold, all_skills>>
    /\ UNCHANGED <<extractVars, lookupVars, loadVars, sessionVars>>

RulesNext == GenerateGlobalRules \/ GenerateRoleRules

RulesSpec == RulesInit /\ [][RulesNext]_vars

(***************************************************************************)
(* SkillDictionary: load_all and add_skill over the categories             *)
(***************************************************************************)
\* extraction.dictionaries: nothing configured; a term in the technical and
\* in the soft file; the soft and the custom file sharing a term; a
\* technical file that does not exist
DictConfigs ==
    { EmptyMap,
      [c \in {"technical", "soft"} |->
          IF c = "technical" THEN DictFile(TRUE, << <<"A">> >>)
          ELSE DictFile(TRUE, << <<"a">>, <<" ", "b">> >>)],
      [c \in {"soft", "custom"} |->
          IF c = "soft" THEN DictFile(TRUE, << <<"b">> >>)
          ELSE DictFile(TRUE, << <<"B">>, <<"A">> >>)],
      [c \in {"technical", "custom"} |->
          IF c = "technical" THEN DictFile(FALSE, <<>>)
          ELSE DictFile(TRUE, << <<"A">> >>)] }

\* the files load_from_file may count before the model stops loading
MaxFilesLoaded == 4

\* the categories of CategoryOrder from the k-th on that are configured
RECURSIVE ConfiguredFrom(_, _)
ConfiguredFrom(config, k) ==
    IF k > Len(CategoryOrder) THEN <<>>
    ELSE (IF CategoryOrder[k] \in DOMAIN config THEN <<CategoryOrder[k]>> ELSE <<>>)
         \o ConfiguredFrom(config, k + 1)

\* the statistics after load_from_file has been called on the files of the
\* categories cs, one after the other
RECURSIVE FilesLoaded(_, _, _)
FilesLoaded(st, config, cs) ==
    IF cs = <<>> THEN st
    ELSE FilesLoaded(FileLoaded(st, config[Head(cs)]), config, Tail(cs))

\* add_skill with the skill's .lower() left out
AddToKeepCase(skills, skill) == skills \cup {skill}

\* add_skill: the lowercased skill joins a set
AddTo(skills, skill) == skills \cup {Lower(skill)}

\* SkillDictionary.contains(skill)
Contains(skills, skill) == Lower(skill) \in skills

\* the skills add_skill is called with, and those get_category is asked for
AddedSkills == {<<"A">>, <<"b">>}

LookedUpSkills == {<<"a">>, <<"A">>, <<"B">>, <<"a", "b">>}

DictInit ==
    /\ pc = "dict"
    /\ dictionaries \in DictConfigs
    /\ category_skills = EmptyCategories
    /\ all_skills = {}
    /\ category_arg = <<>>
    /\ category = "None"
    /\ df = <<>>
    /\ ExtractIdle
    /\ ReportIdle
    /\ LoadIdle
    /\ SessionIdle

\* SkillDictionary.load_all: each configured category is replaced by its
\* file, the combined set is built anew
LoadAllCategories ==
    /\ pc \in {"dict", "looked"}
    /\ LET configured == ConfiguredFrom(dictionaries, 1)
           st == FilesLoaded(dict_stats, dictionaries, configured)
       IN  /\ st.files_loaded <= MaxFilesLoaded
           /\ category_skills' =
                  [c \in DOMAIN category_skills |->
                      IF c \in DOMAIN dictionaries THEN LoadFromPath(dictionaries[c])
                      ELSE category_skills[c]]
           /\ all_skills' = UNION {category_skills'[c] : c \in DOMAIN category_skills'}
           /\ dict_stats' = [st EXCEPT !.total_loaded = Cardinality(all_skills')]
           /\ loaded' = IF configured = <<>> THEN loaded
                        ELSE LoadFromPath(dictionaries[configured[Len(configured)]])
    /\ pc' = "dict"
    /\ UNCHANGED <<dictionaries, category_arg, category, df>>
    /\ UNCHANGED <<extractVars, reportVars, sessionVars>>

\* SkillDictionary.add_skill(skill, c)
AddSkill ==
    /\ pc \in {"dict", "looked"}
    /\ \E skill \in AddedSkills, c \in DOMAIN category_skills :
        /\ category_skills' = [category_skills EXCEPT ![c] = AddTo(@, skill)]
        /\ all_skills' = AddTo(all_skills, skill)
    /\ pc' = "dict"
    /\ UNCHANGED <<dictionaries, category_arg, category, df>>
    /\ UNCHANGED <<extractVars, reportVars, loadVars, sessionVars>>

\* SkillDictionary.get_category(skill)
GetCategoryCall ==
    /\ pc \in {"dict", "looked"}
    /\ \E skill \in LookedUpSkills :
        /\ category_arg' = skill
        /\ category' = GetCategory(category_skills, skill)
    /\ pc' = "looked"
    /\ UNCHANGED <<dictionaries, category_skills, all_skills, df>>
    /\ UNCHANGED <<extractVars, reportVars, loadVars, sessionVars>>

DictNext == LoadAllCategories \/ AddSkill \/ GetCategoryCall

DictSpec == DictInit /\ [][DictNext]_vars

(***************************************************************************)
(* SkillDictionary.load_from_file on one file                              *)
(***************************************************************************)
\* the lines a dictionary file may have
MaxLines == 3

\* lines of a dictionary file: an empty and a blank one, comments with and
\* without leading blanks, a term in both cases and between blanks, a term
\* that holds a '#', a term that ends with the line's newline, a term of two
\* words
DictLinePool ==
    { <<>>, <<" ">>, <<"#">>, <<" ", "#", "a">>, <<"a">>, <<"A">>,
      <<" ", "a", " ">>, <<"a", "#">>, <<"b", "\n">>, <<"a", " ", "b">> }

RECURSIVE LinesUpTo(_)
LinesUpTo(n) ==
    IF n = 0 THEN {<<>>}
    ELSE LET shorter == LinesUpTo(n - 1)
         IN  shorter \cup {Append(f, l) : f \in {g \in shorter : Len(g) = n - 1},
                                            l \in DictLinePool}

\* the file load_from_file is called on: a path that does not exist, or a
\* readable file
LoadFiles == {DictFile(FALSE, <<>>)} \cup {DictFile(TRUE, f) : f \in LinesUpTo(MaxLines)}

\* one file under one category, a dictionary that has loaded nothing yet
LoadInit ==
    /\ pc = "file"
    /\ \E c \in {"technical", "custom"}, f \in LoadFiles :
           dictionaries = [x \in {c} |-> f]
    /\ category_skills = EmptyCategories
    /\ all_skills = {}
    /\ category_arg = <<>>
    /\ category = "None"
    /\ df = <<>>
    /\ ExtractIdle
    /\ ReportIdle
    /\ LoadIdle
    /\ SessionIdle

\* SkillDictionary.load_from_file(path, category) on the configured file
LoadFromFileCall ==
    /\ pc \in {"file", "read"}
    /\ dict_stats.files_loaded < MaxFilesLoaded
    /\ \E c \in DOMAIN dictionaries :
        /\ loaded' = LoadFromPath(dictionaries[c])
        /\ dict_stats' = FileLoaded(dict_stats, dictionaries[c])
    /\ error' = "None"
    /\ pc' = "read"
    /\ UNCHANGED <<dictionaries, category_skills, all_skills, category_arg, category, df>>
    /\ UNCHANGED <<extractVars, reportVars, document, documents, extracted,
                   returned, workers>>

LoadNext == LoadFromFileCall

LoadSpec == LoadInit /\ [][LoadNext]_vars

(***************************************************************************)
(* SkillExtractor: extract on any document, extract_batch, reset_stats     *)
(***************************************************************************)
\* the exception bool(text) raises ("None" when it returns): pd.NA refuses a
\* truth value with a TypeError, an array of several elements with a
\* ValueError
TruthError(doc) ==
    CASE doc.kind = "na" -> "TypeError"
      [] doc.kind = "array" -> "ValueError"
      [] OTHER -> "None"

\* bool(text) where it returns: a non-empty string, a NaN and a number other
\* than 0 are true, None, the empty string and 0 are false
Truthy(doc) ==
    CASE doc.kind = "str" -> doc.chars # <<>>
      [] doc.kind \in {"none", "zero"} -> FALSE
      [] doc.kind \in {"nan", "number"} -> TRUE

\* isinstance(text, str)
IsText(doc) == doc.kind = "str"

\* not text or not isinstance(text, str)
IsDegenerate(doc) == ~Truthy(doc) \/ ~IsText(doc)

\* how a call of extract ends: the exception ("None" when it returns), whether
\* the statistics were updated, the matches and the returned list
Outcome(err, counted, found, skills) ==
    [error |-> err, counted |-> counted, spans |-> found, skills |-> skills]

\* extract from findall on (lines 155-173): re raises TypeError when it is
\* handed anything but a string
ExtractMatches(doc, pat, map, cs, normalize, dedup) ==
    IF ~IsText(doc) THEN Outcome("TypeError", FALSE, <<>>, <<>>)
    ELSE LET found == Scan(pat, doc.chars, 0, IgnoreCase(cs))
         IN  Outcome("None", TRUE, found,
                     SkillsOf([k \in 1..Len(found) |-> Matched(doc.chars, found[k])],
                              map, normalize, dedup))

\* extract with the pattern compiled anew from the dictionary at each call
ExtractOfLive(doc, pat, map, cs, normalize, dedup) ==
    LET live == CHOOSE p \in SortedByLength(AllPatterns(all_skills, variations)) : TRUE
    IN  IF TruthError(doc) # "None" THEN Outcome(TruthError(doc), FALSE, <<>>, <<>>)
        ELSE IF IsDegenerate(doc) \/ live = <<>> THEN Outcome("None", FALSE, <<>>, <<>>)
        ELSE ExtractMatches(doc, live, map, cs, normalize, dedup)

\* SkillExtractor.extract(doc) on an extractor whose pattern is pat: 'not
\* text' is evaluated first and raises for a document without a truth value;
\* then the two early returns, then the matches of the pattern compiled at
\* construction
ExtractOf(doc, pat, map, cs, normalize, dedup) ==
    IF TruthError(doc) # "None" THEN Outcome(TruthError(doc), FALSE, <<>>, <<>>)
    ELSE IF IsDegenerate(doc) \/ pat = <<>> THEN Outcome("None", FALSE, <<>>, <<>>)
    ELSE ExtractMatches(doc, pat, map, cs, normalize, dedup)

\* the update of the statistics with the set of distinct skills left as it is
UpdateStatsCountsOnly(st, skills) ==
    [total_extractions |-> st.total_extractions + 1,
     total_skills_found |-> st.total_skills_found + Len(skills),
     unique_skills_found |-> st.unique_skills_found]

\* the update of the statistics at the end of extract (lines 168-171)
UpdateStats(st, skills) ==
    [total_extractions |-> st.total_extractions + 1,
     total_skills_found |-> st.total_skills_found + Len(skills),
     unique_skills_found |-> st.unique_skills_found \cup Range(skills)]

\* the statistics after a call that ended as out
StatsAfter(st, out) == IF out.counted THEN UpdateStats(st, out.skills) ELSE st

\* a < b for strings, as Python compares them
RECURSIVE StringLess(_, _)
StringLess(a, b) ==
    IF b = <<>> THEN FALSE
    ELSE IF a = <<>> THEN TRUE
    ELSE IF Head(a) = Head(b) THEN StringLess(Tail(a), Tail(b))
    ELSE CodePoint(Head(a)) < CodePoint(Head(b))

\* sorted(list(S)) of a set of strings
RECURSIVE SortedStrings(_)
SortedStrings(S) ==
    IF S = {} THEN <<>>
    ELSE LET first == CHOOSE x \in S : \A y \in S \ {x} : StringLess(x, y)
         IN  <<first>> \o SortedStrings(S \ {first})

\* SkillExtractor.get_extraction_stats()
GetExtractionStats(st) ==
    [total_extractions |-> st.total_extractions,
     total_skills_found |-> st.total_skills_found,
     unique_skills_count |-> Cardinality(st.unique_skills_found),
     unique_skills |-> SortedStrings(st.unique_skills_found)]

\* df[text_column].apply(self.extract): extract on each row, in the order of
\* the rows
BatchOutcomes(docs, pat, map, cs, normalize, dedup) ==
    [i \in 1..Len(docs) |-> ExtractOf(docs[i], pat, map, cs, normalize, dedup)]

\* a row of the table extract_batch returns
Row(doc, skills) == [text |-> doc, extracted_skills |-> skills, skill_count |-> Len(skills)]

\* the statistics after the calls that ended as outs, one after the other
RECURSIVE StatsAfterAll(_, _)
StatsAfterAll(st, outs) ==
    IF outs = <<>> THEN st
    ELSE StatsAfterAll(StatsAfter(st, Head(outs)), Tail(outs))

\* the calls of a session the model follows before it stops calling extract
MaxCalls == 3

\* the rows of the caller's table
MaxBatch == 2

\* documents: None, NaN, 0, another number, pd.NA, an array of several
\* elements, the empty text, a text with one skill, with two skills, with one
\* skill twice
SessionDocs ==
    { Doc("none", <<>>), Doc("nan", <<>>), Doc("zero", <<>>), Doc("number", <<>>),
      Doc("na", <<>>), Doc("array", <<>>),
      Doc("str", <<>>), Doc("str", <<"b">>), Doc("str", <<"a", " ", "b">>),
      Doc("str", <<"b", " ", "b">>) }

RECURSIVE DocTablesUpTo(_)
DocTablesUpTo(n) ==
    IF n = 0 THEN {<<>>}
    ELSE LET shorter == DocTablesUpTo(n - 1)
         IN  shorter \cup {Append(t, d) : t \in {u \in shorter : Len(u) = n - 1},
                                            d \in SessionDocs}

\* extractors: one without any skill; one with two skills of which the first
\* is a variation of the second; one with a single skill that keeps the
\* duplicates
SessionConfig(lines, table, dedup) ==
    [dict_lines |-> lines, variations_file |-> table, remove_duplicates |-> dedup]

SessionConfigs ==
    { SessionConfig(<<>>, <<>>, TRUE),
      SessionConfig(<< <<"A">>, <<"b">> >>, << Entry(<<"b">>, << <<"A">> >>) >>, TRUE),
      SessionConfig(<< <<"b">> >>, <<>>, FALSE) }

\* the positions of a session: constructed, and after each kind of call
SessionStates == {"built", "extracted", "batched", "reset", "added"}

\* a dictionary loaded by load_all and an extractor constructed on it, the
\* caller's table being tables' choice
Constructed(tables) ==
    /\ pc = "built"
    /\ \E cfg \in SessionConfigs :
        /\ dict_lines = cfg.dict_lines
        /\ variations_file = cfg.variations_file
        /\ remove_duplicates = cfg.remove_duplicates
    /\ case_sensitive = FALSE
    /\ normalize_skills = TRUE
    /\ all_skills = LoadFromFile(dict_lines)
    /\ category_skills = [EmptyCategories EXCEPT !["technical"] = LoadFromFile(dict_lines)]
    /\ dictionaries = [c \in {"technical"} |-> DictFile(TRUE, dict_lines)]
    /\ dict_stats = [FileLoaded(ZeroDictStats, DictFile(TRUE, dict_lines))
                         EXCEPT !.total_loaded = Cardinality(all_skills)]
    /\ loaded = LoadFromFile(dict_lines)
    /\ variations = variations_file
    /\ variation_map = BuildVariationMap(variations_file, EmptyMap)
    /\ pattern \in SortedByLength(AllPatterns(all_skills, variations))
    /\ stats = ZeroStats
    /\ text = <<>>
    /\ spans = <<>>
    /\ result = <<>>
    /\ frequency = EmptyMap
    /\ df = <<>>
    /\ category_arg = <<>>
    /\ category = "None"
    /\ documents \in tables
    /\ error = "None"
    /\ document = NoDocument
    /\ extracted = <<>>
    /\ returned = <<>>
    /\ workers = <<>>
    /\ ReportIdle

SessionInit == Constructed({<<>>, <<Doc("nan", <<>>), Doc("str", <<"b", " ", "b">>)>>})

\* SkillExtractor.extract(d)
ExtractCall ==
    /\ pc \in SessionStates
    /\ Len(returned) < MaxCalls
    /\ \E d \in SessionDocs :
        LET out == ExtractOf(d, pattern, variation_map, case_sensitive,
                             normalize_skills, remove_duplicates)
        IN  /\ document' = d
            /\ text' = IF IsText(d) THEN d.chars ELSE <<>>
            /\ error' = out.error
            /\ spans' = out.spans
            /\ result' = out.skills
            /\ stats' = StatsAfter(stats, out)
            /\ returned' = IF out.error = "None" THEN Append(returned, out.skills)
                           ELSE returned
    /\ pc' = "extracted"
    /\ UNCHANGED <<dict_lines, variations_file, case_sensitive, remove_duplicates,
                   normalize_skills, all_skills, variations, variation_map, pattern,
                   df, frequency, documents, extracted, workers>>
    /\ UNCHANGED <<reportVars, lookupVars, loadVars>>

\* SkillExtractor.extract_batch(df) on the caller's table: extract on every
\* row of a copy, the lists and their lengths as two new columns; an
\* exception of extract leaves apply, and so extract_batch, at that row
ExtractBatch ==
    /\ pc \in SessionStates
    /\ Len(returned) + Len(documents) <= MaxCalls
    /\ LET outs == BatchOutcomes(documents, pattern, variation_map, case_sensitive,
                                 normalize_skills, remove_duplicates)
           failed == {i \in 1..Len(outs) : outs[i].error # "None"}
           last == IF failed = {} THEN Len(outs) ELSE Min(failed)
           done == IF failed = {} THEN outs ELSE SubSeq(outs, 1, last - 1)
       IN  /\ error' = IF failed = {} THEN "None" ELSE outs[last].error
           /\ extracted' = IF failed = {}
                           THEN [i \in 1..Len(outs) |-> Row(documents[i], outs[i].skills)]
                           ELSE extracted
           /\ stats' = StatsAfterAll(stats, done)
           /\ returned' = returned \o [i \in 1..Len(done) |-> done[i].skills]
           /\ document' = IF last = 0 THEN document ELSE documents[last]
           /\ text' = IF last = 0 THEN text
                      ELSE IF IsText(documents[last]) THEN documents[last].chars
                      ELSE <<>>
           /\ spans' = IF last = 0 THEN spans ELSE outs[last].spans
           /\ result' = IF last = 0 THEN result ELSE outs[last].skills
    /\ pc' = "batched"
    /\ UNCHANGED <<dict_lines, variations_file, case_sensitive, remove_duplicates,
                   normalize_skills, all_skills, variations, variation_map, pattern,
                   df, frequency, documents, workers>>
    /\ UNCHANGED <<reportVars, lookupVars, loadVars>>

\* SkillExtractor.reset_stats()
ResetStats ==
    /\ pc \in SessionStates
    /\ stats' = ZeroStats
    /\ returned' = <<>>
    /\ pc' = "reset"
    /\ UNCHANGED <<dict_lines, variations_file, case_sensitive, remove_duplicates,
                   normalize_skills, all_skills, variations, variation_map, pattern,
                   text, spans, result, df, frequency, error, document, documents,
                   extracted, workers>>
    /\ UNCHANGED <<reportVars, lookupVars, loadVars>>

\* SkillDictionary.add_skill(skill), the category left at its default, on the
\* dictionary the extractor was constructed on
AddSkillDefault ==
    /\ pc \in SessionStates
    /\ \E skill \in AddedSkills :
        /\ category_skills' = [category_skills EXCEPT !["custom"] = AddTo(@, skill)]
        /\ all_skills' = AddTo(all_skills, skill)
    /\ pc' = "added"
    /\ UNCHANGED <<dictionaries, category_arg, category, df>>
    /\ UNCHANGED <<extractVars, reportVars, loadVars, sessionVars>>

SessionNext == ExtractCall \/ ExtractBatch \/ ResetStats \/ AddSkillDefault

SessionSpec == SessionInit /\ [][SessionNext]_vars

\* extract_batch on every table of up to MaxBatch rows
BatchInit == Constructed(DocTablesUpTo(MaxBatch))

BatchNext == ExtractBatch

BatchSpec == BatchInit /\ [][BatchNext]_vars

(***************************************************************************)
(* SkillExtractor.__init__ on any variations file                          *)
(***************************************************************************)
\* what yaml.safe_load makes of the variations file: a value of kind "null",
\* "int", "str" (its characters in chars), "list" (its members in items) or
\* "map" (its key/value pairs in items, in the order of the file); the kind
\* "unparsable" stands for a file safe_load raises on, "absent" for a path
\* that is not configured or does not exist
Yaml(kind, chars, items) == [kind |-> kind, chars |-> chars, items |-> items]

YNull == Yaml("null", <<>>, <<>>)

YInt == Yaml("int", <<>>, <<>>)

YStr(chars) == Yaml("str", chars, <<>>)

YList(items) == Yaml("list", <<>>, items)

YMap(pairs) == Yaml("map", <<>>, pairs)

YPair(key, value) == [key |-> key, value |-> value]

\* bool() of a loaded value: the number stands for one other than 0
YTruthy(y) ==
    CASE y.kind = "null" -> FALSE
      [] y.kind = "int" -> TRUE
      [] y.kind = "str" -> y.chars # <<>>
      [] OTHER -> y.items # <<>>

\* self.variations after line 126: the empty mapping it starts as when the
\* file is absent or safe_load raises, or when the loaded value is false
LoadedVariations(y) ==
    IF y.kind \in {"absent", "unparsable"} \/ ~YTruthy(y) THEN YMap(<<>>) ELSE y

\* for v in value: the members of a list, the characters of a string, the
\* keys of a mapping; None and a number cannot be iterated
Iterable(y) == y.kind \in {"list", "str", "map"}

Iterated(y) ==
    CASE y.kind = "list" -> y.items
      [] y.kind = "str" -> [i \in 1..Len(y.chars) |-> YStr(<<y.chars[i]>>)]
      [] y.kind = "map" -> [i \in 1..Len(y.items) |-> y.items[i].key]

\* the inner loop of _load_variations over what a value yields: the map, and
\* whether the loop got through (a member without .lower() raises)
RECURSIVE MapMembers(_, _, _)
MapMembers(members, canonical_lower, map) ==
    IF members = <<>> THEN [map |-> map, ok |-> TRUE]
    ELSE IF Head(members).kind # "str" THEN [map |-> map, ok |-> FALSE]
    ELSE MapMembers(Tail(members), canonical_lower,
                    DictSet(map, Lower(Head(members).chars), canonical_lower))

\* the outer loop of _load_variations: the except clause ends it at the first
\* key without .lower(), value that cannot be iterated or member without
\* .lower(), and what was mapped until then stays
RECURSIVE MapPairs(_, _)
MapPairs(pairs, map) ==
    IF pairs = <<>> THEN map
    ELSE LET pair == Head(pairs)
         IN  IF pair.key.kind # "str" \/ ~Iterable(pair.value) THEN map
             ELSE LET done == MapMembers(Iterated(pair.value), Lower(pair.key.chars), map)
                  IN  IF done.ok THEN MapPairs(Tail(pairs), done.map) ELSE done.map

\* _variation_map after _load_variations: .items() raises on a value that is
\* no mapping, and the except clause leaves the map empty
VariationMapOf(loaded_value) ==
    IF loaded_value.kind = "map" THEN MapPairs(loaded_value.items, EmptyMap) ELSE EmptyMap

\* the loop of _build_patterns over self.variations.values(), outside any
\* try: the exception that ends it ("None" when it gets through) and the
\* strings collected
RECURSIVE PatternsOfPairs(_, _)
PatternsOfPairs(pairs, patterns) ==
    IF pairs = <<>> THEN [error |-> "None", patterns |-> patterns]
    ELSE LET value == Head(pairs).value
         IN  IF ~Iterable(value) THEN [error |-> "TypeError", patterns |-> patterns]
             ELSE IF \E i \in 1..Len(Iterated(value)) : Iterated(value)[i].kind # "str"
             THEN [error |-> "AttributeError", patterns |-> patterns]
             ELSE PatternsOfPairs(Tail(pairs),
                      patterns \cup {Lower(Iterated(value)[i].chars) :
                                        i \in 1..Len(Iterated(value))})

\* _build_patterns: .values() raises on a value that is no mapping
BuildPatterns(skills, loaded_value) ==
    IF loaded_value.kind = "map" THEN PatternsOfPairs(loaded_value.items, skills)
    ELSE [error |-> "AttributeError", patterns |-> skills]

\* variations files: none; one that cannot be parsed; an empty one; a list
\* and a string at the top level; a well-formed mapping; a value that is
\* null, a number, a string; a key that is a number, alone and after a
\* well-formed pair; a member that is a number, alone and after a string
YamlFiles ==
    { Yaml("absent", <<>>, <<>>),
      Yaml("unparsable", <<>>, <<>>),
      YNull,
      YList(<<YStr(<<"A">>)>>),
      YStr(<<"A">>),
      YMap(<<YPair(YStr(<<"b">>), YList(<<YStr(<<"A">>)>>))>>),
      YMap(<<YPair(YStr(<<"b">>), YNull)>>),
      YMap(<<YPair(YStr(<<"b">>), YInt)>>),
      YMap(<<YPair(YStr(<<"b">>), YStr(<<"A", "+">>))>>),
      YMap(<<YPair(YInt, YList(<<YStr(<<"A">>)>>))>>),
      YMap(<<YPair(YStr(<<"b">>), YList(<<YStr(<<"A">>)>>)),
             YPair(YInt, YList(<<YStr(<<"a", "+">>)>>))>>),
      YMap(<<YPair(YStr(<<"b">>), YList(<<YInt>>))>>),
      YMap(<<YPair(YStr(<<"b">>), YList(<<YStr(<<"A">>), YInt>>))>>) }

\* a loaded dictionary of one skill or of none, no extractor yet
VarInit ==
    /\ pc = "loaded"
    /\ dict_lines \in {<<>>, << <<"b">> >>}
    /\ variations_file \in YamlFiles
    /\ normalize_skills \in BOOLEAN
    /\ remove_duplicates \in BOOLEAN
    /\ case_sensitive = FALSE
    /\ all_skills = LoadFromFile(dict_lines)
    /\ category_skills = [EmptyCategories EXCEPT !["technical"] = LoadFromFile(dict_lines)]
    /\ dictionaries = [c \in {"technical"} |-> DictFile(TRUE, dict_lines)]
    /\ dict_stats = [FileLoaded(ZeroDictStats, DictFile(TRUE, dict_lines))
                         EXCEPT !.total_loaded = Cardinality(all_skills)]
    /\ loaded = LoadFromFile(dict_lines)
    /\ variations = YMap(<<>>)
    /\ variation_map = EmptyMap
    /\ pattern = <<>>
    /\ stats = ZeroStats
    /\ text = <<>>
    /\ spans = <<>>
    /\ result = <<>>
    /\ frequency = EmptyMap
    /\ df = <<>>
    /\ category_arg = <<>>
    /\ category = "None"
    /\ ReportIdle
    /\ SessionIdle

\* SkillExtractor.__init__ on the loaded dictionary: _load_variations when
\* normalize_skills, then _build_patterns, whose exception leaves __init__
ConstructFromYaml ==
    /\ pc = "loaded"
    /\ variations' = IF normalize_skills THEN LoadedVariations(variations_file)
                     ELSE YMap(<<>>)
    /\ variation_map' = IF normalize_skills THEN VariationMapOf(variations')
                        ELSE EmptyMap
    /\ LET built == BuildPatterns(all_skills, variations')
       IN  /\ error' = built.error
           /\ IF built.error = "None"
              THEN /\ pattern' \in SortedByLength(built.patterns)
                   /\ pc' = "built"
              ELSE /\ pattern' = <<>>
                   /\ pc' = "failed"
    /\ stats' = ZeroStats
    /\ UNCHANGED <<dict_lines, variations_file, case_sensitive, remove_duplicates,
                   normalize_skills, all_skills, text, spans, result, df, frequency,
                   document, documents, extracted, returned, workers>>
    /\ UNCHANGED <<reportVars, lookupVars, loadVars>>

VarNext == ConstructFromYaml \/ ExtractCall

VarSpec == VarInit /\ [][VarNext]_vars

(***************************************************************************)
(* SkillExtractor.extract called from several threads                      *)
(***************************************************************************)
\* most threads inside extract on one extractor
MaxThreads == 2

\* what the threads pass to extract: nothing, a text with one match, a text
\* with two
ThreadDocs ==
    { Doc("none", <<>>), Doc("str", <<"b">>), Doc("str", <<"b", " ", "b">>) }

\* a thread that has called extract(doc) and runs none of its body yet: where
\* it is, its argument, its list skills, whether it got past the early
\* returns, and the counter it has read and not written back yet
Worker(doc) ==
    [pc |-> "called", document |-> doc, skills |-> <<>>, counted |-> FALSE, read |-> 0]

ThreadInit == Constructed({<<>>})

ThreadFrame ==
    /\ UNCHANGED <<pc, all_skills, df, error, document, documents, extracted>>
    /\ UNCHANGED <<dict_lines, variations_file, case_sensitive, remove_duplicates,
                   normalize_skills, variations, variation_map, pattern, text,
                   spans, result, frequency>>
    /\ UNCHANGED <<reportVars, lookupVars, loadVars>>

\* one more thread calls extract(d) on the extractor
StartThread ==
    /\ Len(workers) < MaxThreads
    /\ \E d \in ThreadDocs : workers' = Append(workers, Worker(d))
    /\ UNCHANGED <<stats, returned>>
    /\ ThreadFrame

\* lines 148-166, which read what __init__ assigned and write the thread's
\* own names only: the early returns, or the list skills
Enter(i) ==
    /\ workers[i].pc = "called"
    /\ LET out == ExtractOf(workers[i].document, pattern, variation_map, case_sensitive,
                            normalize_skills, remove_duplicates)
       IN  IF out.counted
           THEN /\ workers' = [workers EXCEPT ![i].pc = "at169",
                                              ![i].skills = out.skills,
                                              ![i].counted = TRUE]
                /\ UNCHANGED returned
           ELSE /\ workers' = [workers EXCEPT ![i].pc = "done"]
                /\ returned' = Append(returned, out.skills)
    /\ UNCHANGED stats
    /\ ThreadFrame

\* line 169, self._stats['total_extractions'] += 1: the item is read
Read169(i) ==
    /\ workers[i].pc = "at169"
    /\ workers' = [workers EXCEPT ![i].pc = "in169",
                                  ![i].read = stats.total_extractions]
    /\ UNCHANGED <<stats, returned>>
    /\ ThreadFrame

\* line 169: what was read, plus one, is stored
Write169(i) ==
    /\ workers[i].pc = "in169"
    /\ stats' = [stats EXCEPT !.total_extractions = workers[i].read + 1]
    /\ workers' = [workers EXCEPT ![i].pc = "at170"]
    /\ UNCHANGED returned
    /\ ThreadFrame

\* line 170, self._stats['total_skills_found'] += len(skills): the item is
\* read, then len is called
Read170(i) ==
    /\ workers[i].pc = "at170"
    /\ workers' = [workers EXCEPT ![i].pc = "in170",
                                  ![i].read = stats.total_skills_found]
    /\ UNCHANGED <<stats, returned>>
    /\ ThreadFrame

\* line 170: what was read, plus the length, is stored
Write170(i) ==
    /\ workers[i].pc = "in170"
    /\ stats' = [stats EXCEPT !.total_skills_found =
                                  workers[i].read + Len(workers[i].skills)]
    /\ workers' = [workers EXCEPT ![i].pc = "at171"]
    /\ UNCHANGED returned
    /\ ThreadFrame

\* lines 171-173: set.update in one step, and the list is returned
Update171(i) ==
    /\ workers[i].pc = "at171"
    /\ stats' = [stats EXCEPT !.unique_skills_found = @ \cup Range(workers[i].skills)]
    /\ workers' = [workers EXCEPT ![i].pc = "done"]
    /\ returned' = Append(returned, workers[i].skills)
    /\ ThreadFrame

\* the interpreter runs one thread at a time and may switch between any two
\* of these steps; extract takes no lock
ThreadStep ==
    \E i \in 1..Len(workers) :
        \/ Enter(i)
        \/ Read169(i)
        \/ Write169(i)
        \/ Read170(i)
        \/ Write170(i)
        \/ Update171(i)

ThreadNext == StartThread \/ ThreadStep

ThreadSpec == ThreadInit /\ [][ThreadNext]_vars

(***************************************************************************)
(* Vocabulary of the properties                                            *)
(***************************************************************************)
\* the string t stands in the text at offset i, compared as the extractor's
\* mode compares
OccursAt(t, i) == AltMatches(t, text, i, IgnoreCase(case_sensitive))

\* the n characters from offset i on are neither preceded nor followed by an
\* alphanumeric or underscore character
Delimited(i, n) ==
    /\ i = 0 \/ ~IsWordChar(text[i])
    /\ i + n = Len(text) \/ ~IsWordChar(text[i + n + 1])

\* an accepted match that begins before offset i reaches over it
CoveredByEarlier(i) == \E k \in 1..Len(spans) : spans[k].s < i /\ i < spans[k].e

\* a matchable string longer than n also stands delimited at offset i
LongerAt(i, n) ==
    \E k \in 1..Len(pattern) :
        Len(pattern[k]) > n /\ OccursAt(pattern[k], i) /\ Delimited(i, Len(pattern[k]))

\* extract reported a match of exactly the n characters from offset i on
Accepted(i, n) == \E k \in 1..Len(spans) : spans[k].s = i /\ spans[k].e = i + n

IsPrefix(a, b) == Len(a) < Len(b) /\ SubSeq(b, 1, Len(a)) = a

HasSpecialChar(t) == \E k \in 1..Len(t) : ~IsWordChar(t[k]) /\ ~IsSpace(t[k])

\* the skill extract reports for its k-th match
Reported(k) ==
    IF normalize_skills
    THEN NormalizeSkill(variation_map, Lower(Matched(text, spans[k])))
    ELSE Lower(Matched(text, spans[k]))

(***************************************************************************)
(* C1  Longest-match precedence: when the dictionary holds a term A and a  *)
(* longer term B that begins with A, and B stands in the text delimited by *)
(* non-word characters (at an offset no earlier match reaches over, with   *)
(* no still longer matchable string there), extract accepts B at that      *)
(* offset and does not accept A there.                                     *)
(***************************************************************************)
C1_LongestMatchPrecedence ==
    pc = "done" =>
        \A A \in all_skills, B \in all_skills :
            IsPrefix(A, B) =>
                \A i \in 0..Len(text) :
                    (/\ OccursAt(B, i)
                     /\ Delimited(i, Len(B))
                     /\ ~CoveredByEarlier(i)
                     /\ ~LongerAt(i, Len(B)))
                        => Accepted(i, Len(B)) /\ ~Accepted(i, Len(A))

(***************************************************************************)
(* C2  Word-boundary soundness: every match extract accepts is neither     *)
(* immediately preceded nor immediately followed in the text by an         *)
(* alphanumeric or underscore character.                                   *)
(***************************************************************************)
C2_WordBoundarySoundness ==
    pc = "done" =>
        \A k \in 1..Len(spans) : Delimited(spans[k].s, spans[k].e - spans[k].s)

(***************************************************************************)
(* C3  Special characters are literal: a dictionary term that holds a      *)
(* non-alphanumeric character is reported for every occurrence of exactly  *)
(* its characters that is delimited by non-word characters and that no     *)
(* other accepted match reaches over, and every accepted match is an       *)
(* occurrence of exactly the characters of a matchable string.             *)
(***************************************************************************)
C3_SpecialCharsLiteral ==
    pc = "done" =>
        /\ \A t \in all_skills :
               HasSpecialChar(t) =>
                   \A i \in 0..Len(text) :
                       (/\ OccursAt(t, i)
                        /\ Delimited(i, Len(t))
                        /\ ~CoveredByEarlier(i)
                        /\ ~LongerAt(i, Len(t)))
                           => Accepted(i, Len(t)) /\ Lower(t) \in Range(result)
        /\ \A k \in 1..Len(spans) :
               \E j \in 1..Len(pattern) :
                   /\ Len(pattern[j]) = spans[k].e - spans[k].s
                   /\ OccursAt(pattern[j], spans[k].s)

(***************************************************************************)
(* C4  With remove_duplicates set, the list extract returns holds no skill *)
(* twice, however often or in whatever casing or variation the text        *)
(* mentions it.                                                            *)
(***************************************************************************)
C4_NoDuplicates ==
    (pc = "done" /\ remove_duplicates) =>
        \A i \in 1..Len(result), j \in 1..Len(result) : i # j => result[i] # result[j]

\* two matches of different surface forms were reported as one skill
C4_Witness ==
    /\ pc = "done"
    /\ remove_duplicates
    /\ Len(spans) = 2
    /\ Matched(text, spans[1]) # Matched(text, spans[2])
    /\ Len(result) = 1

(***************************************************************************)
(* C5  The result lists the skills in the order of their first match in    *)
(* the text: a skill whose first match starts before another skill's first *)
(* match precedes it; the result holds exactly the reported skills, each   *)
(* of them a dictionary term, a variation or a canonical name of the       *)
(* variation table.                                                        *)
(***************************************************************************)
FirstStart(x) == Min({spans[k].s : k \in {j \in 1..Len(spans) : Reported(j) = x}})

FirstIndex(x) == Min({k \in 1..Len(result) : result[k] = x})

KnownSkills ==
    AllPatterns(all_skills, variations)
        \cup {Lower(variations[i].canonical) : i \in 1..Len(variations)}

C5_FirstOccurrenceOrder ==
    pc = "done" =>
        /\ Range(result) = {Reported(k) : k \in 1..Len(spans)}
        /\ \A x \in Range(result), y \in Range(result) :
               FirstStart(x) < FirstStart(y) => FirstIndex(x) < FirstIndex(y)
        /\ Range(result) \subseteq KnownSkills

\* a skill was mentioned, then another one, then the first again, and they
\* were reported in the order of their first mentions, against the order of
\* their names and of their last mentions
C5_Witness ==
    /\ pc = "done"
    /\ remove_duplicates
    /\ text = <<"b", " ", "A", " ", "b">>
    /\ Len(spans) = 3
    /\ result = << <<"b">>, <<"a">> >>

(***************************************************************************)
(* C6  With normalize_skills set, a match whose lowercased text is a       *)
(* configured variation is reported under the lowercased canonical name of *)
(* an entry that lists it, and every other match as its own lowercased     *)
(* text.                                                                   *)
(***************************************************************************)
\* the lowercased canonical names under which the file lists the string v
CanonicalsOf(v) ==
    {Lower(variations_file[i].canonical) :
        i \in {j \in 1..Len(variations_file) :
                  \E n \in 1..Len(variations_file[j].variations) :
                      Lower(variations_file[j].variations[n]) = v}}

Expected(k) ==
    LET surface == Lower(Matched(text, spans[k]))
    IN  IF CanonicalsOf(surface) # {} THEN CanonicalsOf(surface) ELSE {surface}

C6_Normalization ==
    (pc = "done" /\ normalize_skills) =>
        /\ \A k \in 1..Len(spans) : Reported(k) \in Expected(k)
        /\ Range(result) = {Reported(k) : k \in 1..Len(spans)}
        /\ ~remove_duplicates =>
               /\ Len(result) = Len(spans)
               /\ \A k \in 1..Len(spans) : result[k] \in Expected(k)

\* a variation written in upper case in the file and in the text was reported
\* under its canonical name, and not as itself
C6_Witness ==
    /\ pc = "done"
    /\ normalize_skills
    /\ text = <<"A">>
    /\ variations_file = << Entry(<<"b">>, << <<"A">>, <<"b">> >>) >>
    /\ result = << <<"b">> >>

(***************************************************************************)
(* C7  Variation-table invariant: every canonical skill (a dictionary term *)
(* or a canonical name of the variation table) resolves to itself, also    *)
(* when it is listed as a variation of another canonical skill.            *)
(***************************************************************************)
CanonicalSkills ==
    all_skills \cup {Lower(variations[i].canonical) : i \in 1..Len(variations)}

C7_CanonicalResolvesToItself ==
    pc \in {"ready", "done"} =>
        \A c \in CanonicalSkills : NormalizeSkill(variation_map, c) = c

(***************************************************************************)
(* C8  Case-insensitivity by default: with case_sensitive off, extract     *)
(* returns for a text what it returns for the lowercased text, every       *)
(* reported skill is in lower case, and a dictionary term written in any   *)
(* casing between non-word characters is reported as the one lowercase     *)
(* skill.                                                                  *)
(***************************************************************************)
IsWord(t) == \A k \in 1..Len(t) : IsWordChar(t[k])

C8_CaseInsensitive ==
    (pc = "done" /\ ~case_sensitive /\ text # <<>> /\ pattern # <<>>) =>
        /\ result = SkillsOf(FindAll(pattern, Lower(text), IgnoreCase(case_sensitive)),
                             variation_map, normalize_skills, remove_duplicates)
        /\ \A k \in 1..Len(result) : Lower(result[k]) = result[k]
        /\ \A t \in all_skills :
               (IsWord(t) /\ Lower(text) = t) =>
                   /\ Len(spans) = 1
                   /\ Lower(Matched(text, spans[1])) = t

\* a dictionary term written in upper case was reported in lower case
C8_Witness ==
    /\ pc = "done"
    /\ ~case_sensitive
    /\ ~normalize_skills
    /\ text = <<"A">>
    /\ result = << <<"a">> >>

(***************************************************************************)
(* C9  Case-sensitive mode: with case_sensitive on, a one-word term        *)
(* matches the text that is the term exactly as the dictionary file        *)
(* writes it, and no text that differs from it in the case of a letter.    *)
(***************************************************************************)
C9_CaseSensitiveMode ==
    (pc = "done" /\ case_sensitive /\ variations = <<>>) =>
        \A n \in 1..Len(dict_lines) :
            IsWord(dict_lines[n]) =>
                /\ text = dict_lines[n] => Accepted(0, Len(text))
                /\ (text # dict_lines[n] /\ Lower(text) = Lower(dict_lines[n]))
                       => spans = <<>>

(***************************************************************************)
(* C10  Document-frequency invariant: calculate_document_frequency gives   *)
(* each skill the number of rows whose list holds it at least once, never  *)
(* the number of mentions and never more than the number of rows; a skill  *)
(* no list holds has no entry, and a cell that is no list adds nothing.    *)
(***************************************************************************)
RowsHolding(s) == {i \in 1..Len(df) : df[i].is_list /\ s \in Range(df[i].skills)}

C10_DocumentFrequency ==
    pc = "counted" =>
        /\ DOMAIN frequency = {s \in SkillNames : RowsHolding(s) # {}}
        /\ \A s \in DOMAIN frequency :
               /\ frequency[s] = Cardinality(RowsHolding(s))
               /\ frequency[s] <= Len(df)

\* a table with a list that mentions a skill twice, a list without it and a
\* cell that is no list but holds it: the skill is counted once
C10_Witness ==
    /\ pc = "counted"
    /\ df = << Cell(TRUE, <<"python", "python">>), Cell(TRUE, <<"java">>),
               Cell(FALSE, <<"python">>) >>
    /\ frequency["python"] = 1
    /\ frequency["java"] = 1

(***************************************************************************)
(* C14: role normalisation                                                 *)
(***************************************************************************)
\* n spaces
RECURSIVE Spaces(_)
Spaces(n) == IF n = 0 THEN <<>> ELSE <<" ">> \o Spaces(n - 1)

\* o is the label l without the spaces around it
IsTrimOf(o, l) ==
    /\ \E i, j \in 0..Len(l) : l = Spaces(i) \o o \o Spaces(j)
    /\ o # <<>> => o[1] # " " /\ o[Len(o)] # " "

\* the raw label, whatever its case and the spaces around it, is a
\* variation listed under the k-th canonical role
ListedUnder(role, k) ==
    \E v \in Range(role_mappings[k].variations), o \in Texts :
        /\ IsTrimOf(o, role.label)
        /\ Len(o) = Len(v)
        /\ \A i \in 1..Len(o) : LowerChar(o[i]) = LowerChar(v[i])

IsMapped(role) == \E k \in 1..Len(role_mappings) : ListedUnder(role, k)

\* the canonical label a mapped role goes to: the first that lists it
MappedTo(role) ==
    role_mappings[Min({k \in 1..Len(role_mappings) : ListedUnder(role, k)})].canonical

\* C14 as stated: normalize_role sends a label that matches a variation,
\* whatever its case and surrounding spaces, to the canonical label, and
\* every missing (None, NaN, empty) or unmapped label to 'Unknown'
C14_RoleNormalization ==
    pc = "normalized" =>
        IF ~IsMissing(role_arg) /\ IsMapped(role_arg)
        THEN normalized_role = MappedTo(role_arg)
        ELSE normalized_role = Unknown

\* C14 amended: normalize_role sends a label that matches a variation,
\* whatever its case and surrounding spaces, to the canonical label, every
\* missing (None, NaN, empty) label to 'Unknown', and every other unmapped
\* label to itself without the spaces around it
C14_RoleNormalizationAmended ==
    pc = "normalized" =>
        IF IsMissing(role_arg) THEN normalized_role = Unknown
        ELSE IF IsMapped(role_arg) THEN normalized_role = MappedTo(role_arg)
        ELSE IsTrimOf(normalized_role, role_arg.label)

\* an unmapped label written in mixed case before a space, with mappings
\* configured, comes back trimmed and in its own case
C14_Witness ==
    /\ pc = "normalized"
    /\ role_mappings # <<>>
    /\ role_arg = RawRole(FALSE, <<"A", "b", " ">>)
    /\ ~IsMapped(role_arg)
    /\ normalized_role = <<"A", "b">>

(***************************************************************************)
(* Vocabulary of the report properties                                     *)
(***************************************************************************)
\* the group a row of the table belongs to
GroupKey(k) ==
    IF role_column.present
    THEN NormalizeRole(role_mappings, role_column.values[k])
    ELSE All

\* the rows of a group, and the skills they hold
GroupDocs(r) == {k \in 1..Len(df) : GroupKey(k) = r}

GroupSkills(r) == UNION {UniqueSkills(df[k]) : k \in GroupDocs(r)}

\* the number of the group's rows that hold the skill
GroupFrequency(r, s) == Cardinality({k \in GroupDocs(r) : s \in UniqueSkills(df[k])})

\* the count the report of a group gives for the skill, 0 when it has none
ReportedFrequency(r, s) ==
    LET items == role_aggregations[r].skill_frequencies
        at == {k \in 1..Len(items) : items[k].skill = s}
    IN  IF at = {} THEN 0 ELSE items[CHOOSE k \in at : TRUE].count

TopSkillsOf(r) == role_aggregations[r].top_skills

TopNames(r) == {TopSkillsOf(r)[i].skill : i \in 1..Len(TopSkillsOf(r))}

\* the skill names in ascending order
NameOrder == <<"java", "python", "sql">>

NameIndex(s) == CHOOSE i \in 1..Len(NameOrder) : NameOrder[i] = s

(***************************************************************************)
(* C11: ties of the top-N list                                             *)
(***************************************************************************)
\* C11: in the top-N list of every group, skills of equal frequency stand
\* in ascending order of their names, and a skill left out of the list
\* never has the frequency of a listed skill that comes after it by name
C11_TieBreakByName ==
    pc = "grouped" =>
        \A r \in DOMAIN role_aggregations :
            LET top == TopSkillsOf(r)
            IN  /\ \A i, j \in 1..Len(top) :
                       i < j /\ top[i].count = top[j].count
                           => NameIndex(top[i].skill) < NameIndex(top[j].skill)
                /\ \A s \in GroupSkills(r) \ TopNames(r) : \A i \in 1..Len(top) :
                       top[i].count = GroupFrequency(r, s)
                           => NameIndex(top[i].skill) < NameIndex(s)

(***************************************************************************)
(* C12: selection of the top-N list                                        *)
(***************************************************************************)
\* C12: the top-N list of every group has min(top_n, distinct skills of the
\* group) entries, one for a skill each, in order of non-increasing
\* frequency; every entry's count is the group's frequency of its skill,
\* and no skill left out is strictly more frequent than a listed one
C12_TopNSelection ==
    pc = "grouped" =>
        \A r \in DOMAIN role_aggregations :
            LET top == TopSkillsOf(r)
                distinct == Cardinality(GroupSkills(r))
            IN  /\ Len(top) = IF top_n < distinct THEN top_n ELSE distinct
                /\ Cardinality(TopNames(r)) = Len(top)
                /\ \A i \in 1..Len(top) :
                       /\ top[i].skill \in GroupSkills(r)
                       /\ top[i].count = GroupFrequency(r, top[i].skill)
                       /\ i < Len(top) => top[i].count >= top[i + 1].count
                /\ \A s \in GroupSkills(r) \ TopNames(r) : \A i \in 1..Len(top) :
                       GroupFrequency(r, s) <= top[i].count

\* three skills in a group, one in both rows, and a list of two: the
\* frequent skill comes first and one of the others is left out
C12_Witness ==
    /\ pc = "grouped"
    /\ top_n = 2
    /\ \E r \in DOMAIN role_aggregations :
        /\ Cardinality(GroupSkills(r)) = 3
        /\ Len(TopSkillsOf(r)) = 2
        /\ TopSkillsOf(r)[1].count = 2
        /\ TopSkillsOf(r)[2].count = 1

(***************************************************************************)
(* C13: percentages                                                        *)
(***************************************************************************)
\* the floats 100.0 and 50.0
Hundred == Quotient(100, 1)

Fifty == Quotient(50, 1)

\* the float nearest to 100 * count / total
NearestPercentage ==
    [count \in 0..MaxRows, total \in 1..MaxRows |-> Quotient(100 * count, total)]

\* the float after x
Successor(x) == RoundToDouble(Increment(x.bits), x.exp)

\* two floats that are equal or next to each other
WithinOneUlp(x, y) ==
    \/ x = y
    \/ x.bits # <<>> /\ Successor(x) = y
    \/ y.bits # <<>> /\ Successor(y) = x

\* C13: for every group and skill the percentage is 100 * frequency over
\* the number of the group's documents, as a float: the float nearest to
\* that number or one next to it; it lies between 0 and 100; it is never a
\* division by zero, and for no documents the computation gives 0
C13_Percentage ==
    /\ \A count \in 0..MaxRows : Percentage(count, 0) = ZeroDouble
    /\ pc = "grouped" =>
        \A r \in DOMAIN role_aggregations :
            LET report == role_aggregations[r]
            IN  /\ DOMAIN report.skill_percentages = GroupSkills(r)
                /\ \A s \in GroupSkills(r) :
                    LET p == report.skill_percentages[s]
                    IN  /\ Cardinality(GroupDocs(r)) > 0
                        /\ WithinOneUlp(p, NearestPercentage[GroupFrequency(r, s),
                                                             Cardinality(GroupDocs(r))])
                        /\ ~Less(p, ZeroDouble) /\ ~Less(Hundred, p)
                /\ Cardinality(GroupDocs(r)) = 0 =>
                       /\ report.skill_percentages = EmptyMap
                       /\ report.avg_skills_per_jd = 0

\* a group of two documents, python in one of them: 50 per cent
C13_Witness ==
    /\ pc = "grouped"
    /\ \E r \in DOMAIN role_aggregations :
        /\ Cardinality(GroupDocs(r)) = 2
        /\ GroupFrequency(r, "python") = 1
        /\ role_aggregations[r].skill_percentages["python"] = Fifty

(***************************************************************************)
(* C15: independence of the groups                                         *)
(***************************************************************************)
\* the rows of a group in the order of the table, next row k onwards
RECURSIVE RowsFrom(_, _)
RowsFrom(r, k) ==
    IF k > Len(df) THEN <<>>
    ELSE (IF k \in GroupDocs(r) THEN <<df[k]>> ELSE <<>>) \o RowsFrom(r, k + 1)

RECURSIVE SumTotalJds(_)
SumTotalJds(roles) ==
    IF roles = {} THEN 0
    ELSE LET r == CHOOSE x \in roles : TRUE
         IN  role_aggregations[r].total_jds + SumTotalJds(roles \ {r})

\* every row lies in the group of its normalized role and in no other, the
\* groups' document counts add up to the rows of the table, and the report
\* of a group is an aggregation of that group's rows alone
GroupsIndependent ==
    pc = "grouped" =>
        /\ \A k \in 1..Len(df) :
               {r \in DOMAIN role_aggregations : k \in GroupDocs(r)} = {GroupKey(k)}
        /\ SumTotalJds(DOMAIN role_aggregations) = Len(df)
        /\ \A r \in DOMAIN role_aggregations :
               /\ role_aggregations[r].total_jds = Cardinality(GroupDocs(r))
               /\ role_aggregations[r].unique_skills = Cardinality(GroupSkills(r))
               /\ \A s \in ReportSkillNames : ReportedFrequency(r, s) = GroupFrequency(r, s)
               /\ role_aggregations[r] \in AggregateGroup(RowsFrom(r, 1), top_n)

\* C15: aggregate_by_role puts every document in exactly one group, that of
\* its normalized role; the groups' total_jds add up to the number of
\* documents; the report of a group is the aggregation of exactly its own
\* documents; and the table the caller handed in is never changed
C15_GroupIndependence ==
    /\ []GroupsIndependent
    /\ [][df' = df /\ role_column' = role_column]_vars

\* two rows with different skills under two roles: two groups of one row
C15_Witness ==
    /\ pc = "grouped"
    /\ Len(df) = 2
    /\ Cardinality(DOMAIN role_aggregations) = 2
    /\ GroupKey(1) = Unknown
    /\ GroupKey(2) = <<"B">>
    /\ UniqueSkills(df[1]) = {"java"}
    /\ UniqueSkills(df[2]) = {"python", "sql"}
    /\ role_aggregations[Unknown].unique_skills = 1
    /\ role_aggregations[<<"B">>].unique_skills = 2

(***************************************************************************)
(* C16: aggregation as a mergeable reduction                               *)
(***************************************************************************)
\* the count a frequency table gives for the skill, 0 when it has none
CountIn(table, s) == IF s \in DOMAIN table THEN table[s] ELSE 0

\* the groups' counts of a skill, added up
RECURSIVE SumReported(_, _)
SumReported(roles, s) ==
    IF roles = {} THEN 0
    ELSE LET r == CHOOSE x \in roles : TRUE
         IN  ReportedFrequency(r, s) + SumReported(roles \ {r}, s)

Reverse(q) == [k \in 1..Len(q) |-> q[Len(q) + 1 - k]]

\* C16: the frequency tables of the shards of a corpus add up to the table
\* of the whole corpus -- the groups of aggregate_by_role are such shards,
\* and so are a head and a tail of the table --, whatever the order of the
\* documents; and one more document never lowers a count
C16_MergeableReduction ==
    pc = "grouped" =>
        LET whole == CalculateDocumentFrequency(df)
            backwards == CalculateDocumentFrequency(Reverse(df))
            heads == [k \in 0..Len(df) |-> CalculateDocumentFrequency(SubSeq(df, 1, k))]
            tails == [k \in 0..Len(df) |->
                         CalculateDocumentFrequency(SubSeq(df, k + 1, Len(df)))]
        IN  /\ SumTotalJds(DOMAIN role_aggregations) = Len(df)
            /\ \A s \in ReportSkillNames :
                LET merged == SumReported(DOMAIN role_aggregations, s)
                IN  /\ merged = CountIn(whole, s)
                    /\ \A k \in 0..Len(df) :
                           CountIn(heads[k], s) + CountIn(tails[k], s) = merged
                    /\ CountIn(backwards, s) = merged
                    /\ \A k \in 1..Len(df) : CountIn(heads[k - 1], s) <= CountIn(heads[k], s)

\* java in both rows, the rows in two groups: 1 + 1 = 2
C16_Witness ==
    /\ pc = "grouped"
    /\ Cardinality(DOMAIN role_aggregations) = 2
    /\ \A r \in DOMAIN role_aggregations : ReportedFrequency(r, "java") = 1
    /\ CountIn(CalculateDocumentFrequency(df), "java") = 2

(***************************************************************************)
(* Vocabulary of the rule properties                                       *)
(***************************************************************************)
\* the number of rows of the whole table that hold the skill
TableFrequency(s) == Cardinality({k \in 1..Len(df) : s \in UniqueSkills(df[k])})

\* the lines of the file that holds the rules of a role
RoleRules(r) == rule_files[output_paths[r]]

\* the group a rule is about: the role it names, the whole table otherwise
HasRole(rule) == "role" \in DOMAIN rule

RuleGroupSize(rule) ==
    IF HasRole(rule) THEN Cardinality(GroupDocs(rule.role)) ELSE Len(df)

RuleGroupFrequency(rule) ==
    IF HasRole(rule) THEN GroupFrequency(rule.role, rule.skill)
    ELSE TableFrequency(rule.skill)

RuleGroupTop(rule) ==
    IF HasRole(rule) THEN role_aggregations[rule.role].top_skills
    ELSE aggregation.top_skills

\* the rules select exactly the skills of a frequency table that reach
\* min_frequency, one rule each, and give the frequency of the table
SelectsFrom(rules, table) ==
    \A s \in DOMAIN table :
        LET at == {k \in 1..Len(rules) : rules[k].skill = s}
        IN  IF table[s] >= min_frequency
            THEN Cardinality(at) = 1 /\ \A k \in at : rules[k].frequency = table[s]
            ELSE at = {}

(***************************************************************************)
(* C17: selection of the rules                                             *)
(***************************************************************************)
\* C17: the rule set generated for a group, the whole table or a role, has
\* exactly one rule for each skill whose frequency in the group reaches
\* min_frequency and none for a skill below it, and the frequency of each
\* rule is the group's frequency of its skill
C17_RuleSelection ==
    /\ pc \in {"global", "roles"} =>
           SelectsFrom(rule_files[GlobalPath],
                       [s \in ReportSkillNames |-> TableFrequency(s)])
    /\ pc = "roles" =>
           \A r \in DOMAIN output_paths :
               /\ SelectsFrom(RoleRules(r), [s \in ReportSkillNames |-> GroupFrequency(r, s)])
               /\ \A rule \in Range(RoleRules(r)) : rule.role = r

(***************************************************************************)
(* C18: the core-skill flag                                                *)
(***************************************************************************)
\* C18: a rule is flagged is_core_skill exactly when the share of its
\* group's documents that hold the skill is at least core_skill_threshold,
\* the share equal to the threshold included
C18_CoreSkillFlag ==
    \A p \in DOMAIN rule_files : \A rule \in Range(rule_files[p]) :
        rule.is_core_skill <=>
            RuleGroupFrequency(rule) * core_threshold.d
                >= core_threshold.n * RuleGroupSize(rule)

\* a skill in one of two documents under the threshold 0.5 is a core skill,
\* and under the threshold 1 it would not be
C18_Witness ==
    /\ pc = "global"
    /\ Len(df) = 2
    /\ core_threshold = Fraction(1, 2)
    /\ \E rule \in Range(rule_files[GlobalPath]) :
           /\ rule.frequency = 1
           /\ TableFrequency(rule.skill) = 1
           /\ rule.is_core_skill

(***************************************************************************)
(* C19: the rank of a rule                                                 *)
(***************************************************************************)
\* C19: a rule has a rank exactly when its skill is in the top-N list of
\* its group, the rank is the 1-based position of the skill in that list
\* and so lies in 1..top_n, and no two rules of a file have the same rank
C19_RuleRank ==
    \A p \in DOMAIN rule_files :
        LET rules == rule_files[p]
        IN  /\ \A k \in 1..Len(rules) :
                LET rule == rules[k]
                    top == RuleGroupTop(rule)
                IN  /\ "rank" \in DOMAIN rule
                           <=> \E i \in 1..Len(top) : top[i].skill = rule.skill
                    /\ "rank" \in DOMAIN rule =>
                           /\ rule.rank \in 1..top_n
                           /\ rule.rank <= Len(top)
                           /\ top[rule.rank].skill = rule.skill
            /\ \A j, k \in 1..Len(rules) :
                   j # k /\ "rank" \in DOMAIN rules[j] /\ "rank" \in DOMAIN rules[k]
                       => rules[j].rank # rules[k].rank

\* two skills and a top-N list of one: the first rule has rank 1, the
\* second has no rank
C19_Witness ==
    /\ pc = "roles"
    /\ top_n = 1
    /\ \E r \in DOMAIN output_paths :
        /\ Len(RoleRules(r)) = 2
        /\ \E j, k \in 1..2 :
            /\ "rank" \in DOMAIN RoleRules(r)[j]
            /\ RoleRules(r)[j].rank = 1
            /\ "rank" \notin DOMAIN RoleRules(r)[k]

(***************************************************************************)
(* C20: the category of a skill                                            *)
(***************************************************************************)
\* the two strings are the same but for the case of their letters
SameIgnoringCase(a, b) ==
    Len(a) = Len(b) /\ \A i \in 1..Len(a) : LowerChar(a[i]) = LowerChar(b[i])

\* the categories from the highest priority to the lowest
Priority == <<"technical", "soft", "custom">>

\* the places in the priority of the categories that hold the skill
Holding(skill) ==
    {k \in 1..Len(Priority) :
        \E t \in category_skills[Priority[k]] : SameIgnoringCase(t, skill)}

\* C20: after any sequence of load_all and add_skill calls, get_category
\* answers, whatever the case of the skill, the first of technical, soft,
\* custom that holds it, and None exactly when no category holds it
C20_CategoryLookup ==
    pc = "looked" =>
        IF Holding(category_arg) = {} THEN category = "None"
        ELSE category = Priority[Min(Holding(category_arg))]

\* a skill asked for in upper case that the soft and the custom category
\* hold and the technical one does not
C20_Witness ==
    /\ pc = "looked"
    /\ category_arg = <<"A">>
    /\ Holding(category_arg) = {2, 3}
    /\ category = "soft"

(***************************************************************************)
(* Vocabulary of a session                                                 *)
(***************************************************************************)
\* what extract returns for a document on the extractor as it stands
ExtractedFrom(doc) ==
    ExtractOf(doc, pattern, variation_map, case_sensitive, normalize_skills,
              remove_duplicates).skills

RECURSIVE SumOfLengths(_)
SumOfLengths(lists) ==
    IF lists = <<>> THEN 0 ELSE Len(Head(lists)) + SumOfLengths(Tail(lists))

UnionOf(lists) == UNION {Range(lists[i]) : i \in 1..Len(lists)}

(***************************************************************************)
(* C21  extract returns [] without raising for a document that is None,    *)
(*      not a string or the empty string, and returns [] for every text    *)
(*      when the extractor has no pattern (no skill, no variation).        *)
(***************************************************************************)
C21_DegenerateInput ==
    pc = "extracted"
        /\ (document.kind # "str" \/ document.chars = <<>> \/ pattern = <<>>)
    => result = <<>> /\ error = "None"

(***************************************************************************)
(* C22  extract_batch completes on every table, documents that are None or *)
(*      no text included; the returned table has the rows of the input in  *)
(*      their order, row i holds extract(document i) whatever the other    *)
(*      rows are and skill_count is the length of that list; the caller's  *)
(*      table is not modified.                                             *)
(***************************************************************************)
BatchPointwise ==
    pc = "batched" =>
        /\ error = "None"
        /\ Len(extracted) = Len(documents)
        /\ \A i \in 1..Len(extracted) :
               /\ extracted[i].text = documents[i]
               /\ extracted[i].extracted_skills = ExtractedFrom(documents[i])
               /\ extracted[i].skill_count = Len(extracted[i].extracted_skills)

C22_BatchPointwise == []BatchPointwise /\ [][documents' = documents]_vars

(***************************************************************************)
(* C25  Every call of extract counts as one processed document: after      *)
(*      reset_stats and n calls of extract, whatever their documents and   *)
(*      whatever the pattern, get_extraction_stats reports                 *)
(*      total_extractions = n.                                             *)
(***************************************************************************)
C25_DocumentsProcessed ==
    GetExtractionStats(stats).total_extractions = Len(returned)

(***************************************************************************)
(* C26  Right after reset_stats every counter is zero and the set of       *)
(*      distinct skills is empty; from then on total_skills_found is the   *)
(*      sum of the lengths of the lists extract has returned since, the    *)
(*      distinct skills are the union of those lists, and                  *)
(*      unique_skills_count <= total_skills_found; reset_stats changes     *)
(*      nothing else of the extractor.                                     *)
(***************************************************************************)
StatsSinceReset ==
    LET reported == GetExtractionStats(stats)
    IN  /\ pc = "reset" =>
               /\ reported.total_extractions = 0
               /\ reported.total_skills_found = 0
               /\ reported.unique_skills_count = 0
               /\ reported.unique_skills = <<>>
        /\ reported.total_skills_found = SumOfLengths(returned)
        /\ Range(reported.unique_skills) = UnionOf(returned)
        /\ reported.unique_skills_count = Cardinality(UnionOf(returned))
        /\ reported.unique_skills_count <= reported.total_skills_found

ResetKeepsExtractor ==
    pc' = "reset" =>
        UNCHANGED <<pattern, variation_map, variations, case_sensitive,
                    normalize_skills, remove_duplicates, all_skills, category_skills>>

C26_StatsReset == []StatsSinceReset /\ [][ResetKeepsExtractor]_vars

\* a batch of two rows, a reset, and then a text that names one skill twice
C26_Witness ==
    /\ pc = "extracted"
    /\ extracted # <<>>
    /\ returned = << <<<<"b">>, <<"b">>>> >>
    /\ stats.total_extractions = 1
    /\ stats.total_skills_found = 2
    /\ stats.unique_skills_found = {<<"b">>}

(***************************************************************************)
(* C27  Once the extractor is built, extract is a function of the text:    *)
(*      the same document gives the same list whatever extract,            *)
(*      extract_batch, reset_stats and add_skill calls came in between,    *)
(*      and the compiled pattern and the variation map never change.       *)
(***************************************************************************)
PatternFrozen ==
    UNCHANGED <<pattern, variation_map, variations, case_sensitive,
                normalize_skills, remove_duplicates>>

SameAsBefore ==
    /\ pc' = "extracted" =>
           /\ document' = document => result' = result
           /\ \A i \in 1..Len(extracted) :
                  extracted[i].text = document' => result' = extracted[i].extracted_skills
    /\ pc' = "batched" =>
           \A i \in 1..Len(extracted') :
               extracted'[i].text = document => extracted'[i].extracted_skills = result

C27_FunctionOfText == [][PatternFrozen /\ SameAsBefore]_vars

\* a skill has been added to the dictionary of an extractor built on the
\* skill b alone, and a text that names the added skill still gives b alone
C27_Witness ==
    /\ pc = "extracted"
    /\ dict_lines = << <<"b">> >>
    /\ <<"a">> \in all_skills
    /\ document = Doc("str", <<"a", " ", "b">>)
    /\ result = << <<"b">> >>

(***************************************************************************)
(* Vocabulary of the dictionary file                                       *)
(***************************************************************************)
\* the file load_from_file was called on
LoadedFile == dictionaries[CHOOSE c \in DOMAIN dictionaries : TRUE]

\* the lines of the file that are neither empty nor a comment once trimmed
KeptLines(lines) ==
    {i \in 1..Len(lines) : Strip(lines[i]) # <<>> /\ Head(Strip(lines[i])) # "#"}

\* the term a kept line stands for
TermOf(line) == Lower(Strip(line))

\* the kept lines whose term an earlier kept line has given already
RepeatedLines(lines) ==
    {i \in KeptLines(lines) :
        \E j \in KeptLines(lines) : j < i /\ TermOf(lines[j]) = TermOf(lines[i])}

(***************************************************************************)
(* C23  A variations file that cannot be parsed or is malformed (the top   *)
(*      level no mapping, a value that is null or no list, a key or a      *)
(*      member that is no string) is never fatal: the extractor is         *)
(*      constructed, no variation is mapped or matched, and extraction     *)
(*      goes on with the terms of the dictionary alone.                    *)
(***************************************************************************)
WellFormedPair(pair) ==
    /\ pair.key.kind = "str"
    /\ pair.value.kind = "list"
    /\ \A i \in 1..Len(pair.value.items) : pair.value.items[i].kind = "str"

Malformed(y) ==
    \/ y.kind \in {"unparsable", "int", "str", "list"}
    \/ y.kind = "map" /\ \E i \in 1..Len(y.items) : ~WellFormedPair(y.items[i])

C23_MalformedVariations ==
    pc # "loaded" /\ normalize_skills /\ Malformed(variations_file) =>
        /\ pc # "failed"
        /\ variation_map = EmptyMap
        /\ Range(pattern) = all_skills
        /\ Range(result) \subseteq all_skills

(***************************************************************************)
(* C28  When several threads call extract on one extractor, no update of   *)
(*      the counters is lost: once every call has finished,                *)
(*      total_extractions is the number of calls that were counted and     *)
(*      total_skills_found is the sum of the lengths of the returned       *)
(*      lists, whatever the interleaving.                                  *)
(***************************************************************************)
AllFinished ==
    /\ workers # <<>>
    /\ \A i \in 1..Len(workers) : workers[i].pc = "done"

CountedCalls == Cardinality({i \in 1..Len(workers) : workers[i].counted})

C28_NoLostUpdates ==
    AllFinished =>
        /\ stats.total_extractions = CountedCalls
        /\ stats.total_skills_found = SumOfLengths(returned)

(***************************************************************************)
(* C24  load_from_file fails with DictionaryLoadError when the file cannot *)
(*      be read (it does not exist) instead of returning a result, and     *)
(*      returns the empty set without failing when the file is readable    *)
(*      and holds no term.                                                 *)
(***************************************************************************)
C24_LoadFailure ==
    pc = "read" =>
        IF LoadedFile.exists
        THEN error = "None" /\ (KeptLines(LoadedFile.lines) = {} => loaded = {})
        ELSE error = "DictionaryLoadError"

(***************************************************************************)
(* C29  For every sequence of lines load_from_file returns exactly the set *)
(*      of the lowercased, trimmed lines that are not empty and do not     *)
(*      begin with '#' once trimmed; a line that repeats an earlier term   *)
(*      in any case is not stored twice and adds one to duplicates_removed.*)
(***************************************************************************)
ParsedTerms ==
    pc = "read" /\ LoadedFile.exists =>
        /\ loaded = {TermOf(LoadedFile.lines[i]) : i \in KeptLines(LoadedFile.lines)}
        /\ Cardinality(loaded) =
               Cardinality(KeptLines(LoadedFile.lines))
                   - Cardinality(RepeatedLines(LoadedFile.lines))

DuplicatesCounted ==
    pc' = "read" /\ LoadedFile.exists =>
        dict_stats'.duplicates_removed =
            dict_stats.duplicates_removed + Cardinality(RepeatedLines(LoadedFile.lines))

C29_DictionaryParsing == []ParsedTerms /\ [][DuplicatesCounted]_vars

\* a file with a comment behind blanks, a term between blanks and the same
\* term in upper case has been read: one term, one duplicate
C29_Witness ==
    /\ pc = "read"
    /\ LoadedFile = DictFile(TRUE, << <<" ", "#", "a">>, <<" ", "a", " ">>, <<"A">> >>)
    /\ loaded = {<<"a">>}
    /\ dict_stats.duplicates_removed = 1

(***************************************************************************)
(* C30  After every sequence of load_all and add_skill calls on the three  *)
(*      categories, the combined set is the union of the category sets,    *)
(*      every stored skill is lowercase, the length of the dictionary is   *)
(*      the size of that union, and contains(s) holds exactly when         *)
(*      get_category(s) is not None.                                       *)
(***************************************************************************)
CategoryUnion == UNION {category_skills[c] : c \in DOMAIN category_skills}

C30_LookupSet ==
    /\ all_skills = CategoryUnion
    /\ \A s \in CategoryUnion : s = [i \in 1..Len(s) |-> LowerChar(s[i])]
    /\ Cardinality(all_skills) = Cardinality(CategoryUnion)
    /\ \A s \in LookedUpSkills :
           Contains(all_skills, s) <=> GetCategory(category_skills, s) # "None"

\* load_all has read two files and add_skill has put an upper-case skill
\* into the custom category: one skill looked up is held, another is not
C30_Witness ==
    /\ pc = "dict"
    /\ dict_stats.files_loaded = 2
    /\ <<"a">> \in category_skills["custom"]
    /\ <<"a">> \in category_skills["technical"]
    /\ <<"b">> \in category_skills["soft"]
    /\ Contains(all_skills, <<"A">>)
    /\ ~Contains(all_skills, <<"a", "b">>)
====
